---- MODULE Spec2Model ----
(***************************************************************************)
(* Model of the enterprise calculator (src/script.js): the number          *)
(* formatter, the CalculatorModel state, the CalculatorController input    *)
(* handlers, the CommandHistory undo stack and the parts of the view the   *)
(* handlers write to.                                                      *)
(*                                                                         *)
(* Text is a sequence of one-character strings ("12 +" is                  *)
(* <<"1","2"," ","+">>), so that length, slicing and appending are the     *)
(* operations of the JavaScript strings.  A number is a record: a finite   *)
(* value is the fraction n/d in lowest terms, and NaN and the infinities   *)
(* are separate kinds.  A finite value stands for the double of the same   *)
(* value; arithmetic is only carried out where the double result is that   *)
(* fraction (see Exact and Printable), the remaining computations are      *)
(* outside the bounds of the model.                                        *)
(***************************************************************************)
EXTENDS Integers, Sequences, FiniteSets, TLC

(***************************************************************************)
(* Bounds of the model.                                                    *)
(***************************************************************************)
\* number of input events of a freely explored behaviour
MaxKeys == 4
\* largest numerator of a modelled number (products stay below 2^31)
MaxAbs == 30000
\* most fractional digits of a modelled number
MaxFrac == 3

(***************************************************************************)
(* Characters and text.                                                    *)
(***************************************************************************)
DigitChars == <<"0", "1", "2", "3", "4", "5", "6", "7", "8", "9">>

IsDigit(c) == \E i \in 1..10 : DigitChars[i] = c

DigitVal(c) == (CHOOSE i \in 1..10 : DigitChars[i] = c) - 1

DigitChar(v) == DigitChars[v + 1]

\* s.slice(0, -1)
DropLast(s) == SubSeq(s, 1, Len(s) - 1)

\* s.indexOf(c) !== -1
Contains(s, c) == \E i \in 1..Len(s) : s[i] = c

Abs(x) == IF x < 0 THEN -x ELSE x

RECURSIVE Pow10(_)
Pow10(k) == IF k = 0 THEN 1 ELSE 10 * Pow10(k - 1)

RECURSIVE Gcd(_, _)
Gcd(a, b) == IF b = 0 THEN a ELSE Gcd(b, a % b)

(***************************************************************************)
(* Numbers.                                                                *)
(***************************************************************************)
NaN == [k |-> "nan", n |-> 0, d |-> 1]

PosInf == [k |-> "inf", n |-> 1, d |-> 1]

NegInf == [k |-> "inf", n |-> -1, d |-> 1]

\* the finite number n/d (d # 0), in lowest terms with a positive denominator
Fin(n, d) ==
    LET g == Gcd(Abs(n), Abs(d))
        s == IF d < 0 THEN -1 ELSE 1
    IN [k |-> "fin", n |-> s * (n \div g), d |-> Abs(d) \div g]

IntNum(n) == [k |-> "fin", n |-> n, d |-> 1]

IsNaN(x) == x.k = "nan"

IsFinite(x) == x.k = "fin"

IsZero(x) == x.k = "fin" /\ x.n = 0

\* Number.isInteger(x)
IsInteger(x) == x.k = "fin" /\ x.d = 1

\* x < c, x <= c for an integer c (false for NaN, as in JavaScript)
LessThan(x, c) ==
    \/ x.k = "fin" /\ x.n < c * x.d
    \/ x = NegInf

AtMost(x, c) ==
    \/ x.k = "fin" /\ x.n <= c * x.d
    \/ x = NegInf

GreaterThan(x, c) ==
    \/ x.k = "fin" /\ x.n > c * x.d
    \/ x = PosInf

\* The double of a finite value is the value itself when it is a dyadic
\* fraction of this size: operands of this form are added, multiplied and
\* divided by the hardware as the fractions are.
Exact(x) == x.k = "fin" /\ x.d \in {1, 2, 4, 8} /\ Abs(x.n) <= MaxAbs

\* A finite value with at most MaxFrac fractional digits: the shortest
\* decimal form of its double is its decimal expansion.
Printable(x) ==
    \/ x.k # "fin"
    \/ /\ Pow10(MaxFrac) % x.d = 0
       /\ Abs(x.n) <= MaxAbs

(***************************************************************************)
(* Number to text: Number.prototype.toString, toLocaleString,              *)
(* toExponential.                                                          *)
(***************************************************************************)
RECURSIVE NatToStr(_)
NatToStr(n) ==
    IF n < 10 THEN <<DigitChar(n)>>
    ELSE NatToStr(n \div 10) \o <<DigitChar(n % 10)>>

\* the decimal digits of r/d (0 <= r < d), at most k of them
RECURSIVE FracDigits(_, _, _)
FracDigits(r, d, k) ==
    IF r = 0 \/ k = 0 THEN <<>>
    ELSE <<DigitChar((r * 10) \div d)>> \o FracDigits((r * 10) % d, d, k - 1)

\* number.toString() for NaN, the infinities and the Printable finite values
\* (which lie between 1e-6 and 1e21 in magnitude, where toString prints the
\* plain decimal expansion); -0 prints as "0"
NumToString(x) ==
    IF x.k = "nan" THEN <<"N", "a", "N">>
    ELSE IF x.k = "inf" THEN
        (IF x.n < 0 THEN <<"-">> ELSE <<>>)
            \o <<"I", "n", "f", "i", "n", "i", "t", "y">>
    ELSE
        LET a == Abs(x.n)
            frac == FracDigits(a % x.d, x.d, 2 * MaxFrac + 6)
        IN (IF x.n < 0 THEN <<"-">> ELSE <<>>)
               \o NatToStr(a \div x.d)
               \o (IF frac = <<>> THEN <<>> ELSE <<".">> \o frac)

\* the thousands separator of number.toLocaleString() (host locale en-US)
GroupSeparator == ","

\* digits grouped in threes from the right
RECURSIVE Grouped(_)
Grouped(digits) ==
    IF Len(digits) <= 3 THEN digits
    ELSE Grouped(SubSeq(digits, 1, Len(digits) - 3))
             \o <<GroupSeparator>>
             \o SubSeq(digits, Len(digits) - 2, Len(digits))

\* number.toLocaleString() of a finite integer
ToLocaleString(x) ==
    (IF x.n < 0 THEN <<"-">> ELSE <<>>) \o Grouped(NatToStr(Abs(x.n) \div x.d))

\* the decimal exponent of a finite non-zero value: 10^e <= |x| < 10^(e+1)
RECURSIVE ExpUp(_, _, _)
ExpUp(a, d, e) == IF a \div d < 10 THEN e ELSE ExpUp(a \div 10, d, e + 1)

RECURSIVE ExpDown(_, _, _)
ExpDown(a, d, e) == IF a >= d THEN e ELSE ExpDown(a * 10, d, e - 1)

Exponent10(x) ==
    LET a == Abs(x.n)
    IN IF a = 0 THEN 0
       ELSE IF a >= x.d THEN ExpUp(a, x.d, 0)
       ELSE ExpDown(a, x.d, 0)

\* |x| * 10^(5-e) rounded to the nearest integer (half up)
Mantissa6(x, e) ==
    IF e <= 5
    THEN (2 * Abs(x.n) * Pow10(5 - e) + x.d) \div (2 * x.d)
    ELSE (2 * Abs(x.n) + x.d * Pow10(e - 5)) \div (2 * x.d * Pow10(e - 5))

\* the text of toExponential(5) from the sign, the six digits of the mantissa
\* and the exponent
ExponentialText(negative, ds, e) ==
    (IF negative THEN <<"-">> ELSE <<>>)
        \o <<ds[1], ".">> \o SubSeq(ds, 2, 6)
        \o <<"e", IF e < 0 THEN "-" ELSE "+">> \o NatToStr(Abs(e))

\* a mantissa that rounded up to 1000000 is 1.00000 with the next exponent
ExponentialRounded(negative, m, e) ==
    IF m = 0 THEN ExponentialText(negative, <<"0", "0", "0", "0", "0", "0">>, 0)
    ELSE IF m >= 1000000 THEN ExponentialText(negative, NatToStr(m \div 10), e + 1)
    ELSE ExponentialText(negative, NatToStr(m), e)

ExponentialAt(x, e) == ExponentialRounded(x.n < 0, Mantissa6(x, e), e)

\* Number(number).toExponential(5) of a finite value
ToExponential5(x) == ExponentialAt(x, Exponent10(x))

(***************************************************************************)
(* Text to number: parseFloat.                                             *)
(***************************************************************************)
\* the number of digit characters of s from position i on
RECURSIVE DigitRun(_, _)
DigitRun(s, i) ==
    IF i <= Len(s) /\ IsDigit(s[i]) THEN 1 + DigitRun(s, i + 1) ELSE 0

\* the value of the len digits of s from position i on
RECURSIVE DigitsValue(_, _, _)
DigitsValue(s, i, len) ==
    IF len = 0 THEN 0
    ELSE DigitsValue(s, i, len - 1) * 10 + DigitVal(s[i + len - 1])

HasPrefixAt(s, i, p) ==
    /\ Len(s) >= i + Len(p) - 1
    /\ SubSeq(s, i, i + Len(p) - 1) = p

\* the mantissa num / 10^fl of the literal times its exponent, which starts
\* at position es of s and has el digits
ParseExponent(s, num, fl, negative, es, el) ==
    IF el = 0 THEN Fin(num, Pow10(fl))
    ELSE IF negative THEN Fin(num, Pow10(fl) * Pow10(DigitsValue(s, es, el)))
    ELSE Fin(num * Pow10(DigitsValue(s, es, el)), Pow10(fl))

\* the exponent part, if any, at position ie of s
ParseExponentSign(s, num, fl, ie, es) ==
    ParseExponent(s, num, fl, es = ie + 2 /\ s[ie + 1] = "-", es, DigitRun(s, es))

ParseMantissa(s, num, fl, ie) ==
    IF ie <= Len(s) /\ s[ie] \in {"e", "E"}
    THEN ParseExponentSign(s, num, fl, ie,
             IF ie + 1 <= Len(s) /\ s[ie + 1] \in {"-", "+"}
             THEN ie + 2 ELSE ie + 1)
    ELSE Fin(num, Pow10(fl))

\* the literal with il integer digits from position i0 and fl fraction digits
ParseDigits(s, negative, i0, il, fl) ==
    IF il = 0 /\ fl = 0 THEN
        (IF HasPrefixAt(s, i0, <<"I", "n", "f", "i", "n", "i", "t", "y">>)
         THEN (IF negative THEN NegInf ELSE PosInf)
         ELSE NaN)
    ELSE ParseMantissa(s,
             (DigitsValue(s, i0, il) * Pow10(fl) + DigitsValue(s, i0 + il + 1, fl))
                 * (IF negative THEN -1 ELSE 1),
             fl,
             i0 + il + (IF i0 + il <= Len(s) /\ s[i0 + il] = "." THEN 1 + fl ELSE 0))

ParseInteger(s, negative, i0, il) ==
    ParseDigits(s, negative, i0, il,
        IF i0 + il <= Len(s) /\ s[i0 + il] = "." THEN DigitRun(s, i0 + il + 1)
        ELSE 0)

ParseSigned(s, negative, i0) == ParseInteger(s, negative, i0, DigitRun(s, i0))

\* parseFloat(s): the longest prefix of s that is a decimal literal
\* (sign, digits, fraction, exponent) or Infinity; NaN when there is none
ParseFloat(s) ==
    ParseSigned(s, Len(s) >= 1 /\ s[1] = "-",
        IF Len(s) >= 1 /\ s[1] \in {"-", "+"} THEN 2 ELSE 1)

(***************************************************************************)
(* CalculationStrategies: the arithmetic library.                          *)
(***************************************************************************)
BasicOperators == {"+", "-", "*", "/", "%"}

ScientificFunctions ==
    {"sin", "cos", "tan", "log", "ln", "sqrt", "power", "factorial"}

\* the names of CalculationStrategies
Strategies == {"basic", "scientific"}

\* the function names as they are written into a log expression
FuncText(f) ==
    CASE f = "sin" -> <<"s", "i", "n">>
      [] f = "cos" -> <<"c", "o", "s">>
      [] f = "tan" -> <<"t", "a", "n">>
      [] f = "log" -> <<"l", "o", "g">>
      [] f = "ln" -> <<"l", "n">>
      [] f = "sqrt" -> <<"s", "q", "r", "t">>
      [] f = "power" -> <<"p", "o", "w", "e", "r">>
      [] f = "factorial" ->
            <<"f", "a", "c", "t", "o", "r", "i", "a", "l">>

\* a % b of JavaScript for finite a and b # 0: the remainder of the division
\* truncated toward zero, with the sign of a
Remainder(a, b) ==
    LET p == Abs(a.n) * b.d
        q == Abs(b.n) * a.d
    IN Fin((IF a.n < 0 THEN -1 ELSE 1) * (p % q), a.d * b.d)

\* does CalculationStrategies.basic.operations[op](a, b) throw
BasicThrows(op, a, b) == op = "/" /\ IsZero(b)

\* the value of CalculationStrategies.basic.operations[op](a, b) for operands
\* that are NaN or finite
BasicValue(op, a, b) ==
    IF IsNaN(a) \/ IsNaN(b) THEN NaN
    ELSE CASE op = "+" -> Fin(a.n * b.d + b.n * a.d, a.d * b.d)
           [] op = "-" -> Fin(a.n * b.d - b.n * a.d, a.d * b.d)
           [] op = "*" -> Fin(a.n * b.n, a.d * b.d)
           [] op = "/" -> Fin(a.n * b.d, a.d * b.n)
           [] op = "%" -> IF IsZero(b) THEN NaN ELSE Remainder(a, b)

\* the binary computations the model carries out: operands that are NaN or
\* exactly represented, and a result with a short decimal form
BasicInModel(op, a, b) ==
    /\ IsNaN(a) \/ Exact(a)
    /\ IsNaN(b) \/ Exact(b)
    /\ ~BasicThrows(op, a, b) => Printable(BasicValue(op, a, b))

\* a factorial that accepts 171
ScientificErrorAbove171(f, x) ==
    CASE f = "log" /\ AtMost(x, 0) -> "Invalid logarithm input"
      [] f = "ln" /\ AtMost(x, 0) -> "Invalid natural logarithm input"
      [] f = "sqrt" /\ LessThan(x, 0) -> "Invalid square root input"
      [] f = "factorial" /\ (LessThan(x, 0) \/ ~IsInteger(x) \/ GreaterThan(x, 171))
            -> "Invalid factorial input"
      [] OTHER -> ""

\* the message of the error a scientific function throws on x, "" if none
ScientificError(f, x) ==
    CASE f = "log" /\ AtMost(x, 0) -> "Invalid logarithm input"
      [] f = "ln" /\ AtMost(x, 0) -> "Invalid natural logarithm input"
      [] f = "sqrt" /\ LessThan(x, 0) -> "Invalid square root input"
      [] f = "factorial" /\ (LessThan(x, 0) \/ ~IsInteger(x) \/ GreaterThan(x, 170))
            -> "Invalid factorial input"
      [] OTHER -> ""

RECURSIVE Product(_)
Product(n) == IF n <= 1 THEN 1 ELSE n * Product(n - 1)

\* the integer square root of a perfect square, -1 for another number
IntSqrt(n) ==
    IF \E r \in 0..200 : r * r = n THEN CHOOSE r \in 0..200 : r * r = n ELSE -1

\* the power of ten n is, -1 when it is none
Log10Int(n) ==
    IF \E e \in 0..4 : Pow10(e) = n THEN CHOOSE e \in 0..4 : Pow10(e) = n ELSE -1

\* the scientific computations the model carries out: those whose double
\* result is the mathematical one
ScientificInModel(f, x) ==
    /\ Exact(x)
    /\ ScientificError(f, x) = "" =>
        CASE f \in {"sin", "cos", "tan"} -> x.n = 0
          [] f = "log" -> x.d = 1 /\ Log10Int(x.n) >= 0
          [] f = "ln" -> x.d = 1 /\ x.n = 1
          [] f = "sqrt" -> x.d \in {1, 4} /\ IntSqrt(x.n) >= 0
          [] f = "power" -> Printable(Fin(x.n * x.n, x.d * x.d))
          [] f = "factorial" -> x.n <= 12 /\ Product(x.n) <= MaxAbs

\* the value of CalculationStrategies.scientific.operations[f](x) where it
\* does not throw
ScientificValue(f, x) ==
    CASE f = "sin" -> IntNum(0)
      [] f = "cos" -> IntNum(1)
      [] f = "tan" -> IntNum(0)
      [] f = "log" -> IntNum(Log10Int(x.n))
      [] f = "ln" -> IntNum(0)
      [] f = "sqrt" -> Fin(IntSqrt(x.n), IntSqrt(x.d))
      [] f = "power" -> Fin(x.n * x.n, x.d * x.d)
      [] f = "factorial" -> IntNum(Product(x.n))

(***************************************************************************)
(* State.                                                                  *)
(***************************************************************************)
VARIABLES
    currentValue,         \* CalculatorModel: text of the current operand
    previousValue,        \* text of the pending operand, <<>> when none
    operator,             \* the pending operator, NULL when none
    isWaitingForOperand,  \* the next digit starts a new operand
    history,              \* the history label above the result
    memoryValue,          \* the memory register, a number
    calculationHistory,   \* the calculation log, newest first
    currentStrategy,      \* "basic" or "scientific"
    saved,                \* localStorage["calculator-data"], <<>> when absent
    emitted,              \* the notifications emitted so far, by event
    storageFails,         \* localStorage.setItem throws
    commands,             \* CommandHistory.commands: the snapshots
    currentIndex,         \* CommandHistory.currentIndex, counted from 0
    view,                 \* what the handlers wrote to the page
    returned,             \* the outcome of the last direct call of a function
    legacy,               \* the fields of the Calculator object of the first version
    emitter,              \* an EventEmitter: its callbacks and its last emit
    context,              \* a context of the State classes: its current state
    plan,                 \* the input events to deliver, <<>> for any
    nKeys                 \* the number of input events delivered

engineVars ==
    <<currentValue, previousValue, operator, isWaitingForOperand, history>>

modelVars ==
    <<currentValue, previousValue, operator, isWaitingForOperand, history,
      memoryValue, calculationHistory, currentStrategy, saved, emitted>>

undoVars == <<commands, currentIndex>>

vars ==
    <<modelVars, undoVars, view, storageFails, returned, legacy, emitter,
      context, plan, nKeys>>

NULL == "null"

\* the page after init(): no error, no toast, the result field and the history
\* label as the markup leaves them (empty), and the redraw init() asked for
\* with its updateView() pending
NewView ==
    [errorState |-> FALSE, errorText |-> "", toast |-> "",
     current |-> <<>>, history |-> <<>>,
     redraw |-> <<[current |-> <<"0">>, history |-> <<>>]>>]

\* new Calculator(): the fields the constructor sets; previousInput is <<>>
\* for '' and holds the number otherwise, error is the message on the
\* display, timers the number of pending setTimeout callbacks of showError
NewCalculator ==
    [currentInput |-> <<"0">>, previousInput |-> <<>>, operation |-> NULL,
     waitingForOperand |-> FALSE, shouldResetDisplay |-> FALSE,
     error |-> "", timers |-> 0]

\* the event names and the callbacks of an EventEmitter used on its own
EventNames == {"valueChanged", "memoryChanged"}

\* new EventEmitter(): no callback is subscribed; delivered lists the
\* callbacks the last emit invoked, in the order of their invocation
NewEventEmitter ==
    [events |-> [eventName \in EventNames |-> <<>>], emitted |-> "",
     delivered |-> <<>>]

\* a context of the State classes in its IdleState, no input handled yet
NewContext ==
    [state |-> "IdleState", currentValue |-> <<"0">>, delegations |-> 0,
     result |-> <<>>]

\* no direct call was made yet
NoCall ==
    [call |-> 0, called |-> "", op |-> "", args |-> <<>>, input |-> <<>>,
     value |-> <<>>, text |-> <<>>, error |-> ""]

\* the longest text inputNumber lets the current operand grow to
MaxInputLength == 15

\* the capacity of the calculation log
MaxLogEntries == 100

\* CommandHistory.maxHistory
maxHistory == 50

(***************************************************************************)
(* CalculatorModel.                                                        *)
(***************************************************************************)
\* CalculatorModel.getState()
getState ==
    [currentValue |-> currentValue,
     previousValue |-> previousValue,
     operator |-> operator,
     isWaitingForOperand |-> isWaitingForOperand,
     history |-> history,
     memoryValue |-> memoryValue]

\* a setState that leaves the memory register as it is
setStateWithoutMemory(state) ==
    /\ currentValue' = state.currentValue
    /\ previousValue' = state.previousValue
    /\ operator' = state.operator
    /\ isWaitingForOperand' = state.isWaitingForOperand
    /\ history' = state.history
    /\ UNCHANGED memoryValue

\* CalculatorModel.setState(state)
setState(state) ==
    /\ currentValue' = state.currentValue
    /\ previousValue' = state.previousValue
    /\ operator' = state.operator
    /\ isWaitingForOperand' = state.isWaitingForOperand
    /\ history' = state.history
    /\ memoryValue' = state.memoryValue

\* a saveState() whose failed write leaves nothing in storage
saveStateOrLose(mem, log) ==
    saved' = IF storageFails THEN <<>>
             ELSE <<[memoryValue |-> mem, calculationHistory |-> log]>>

\* what saveState() hands to storage.save, which stores it unless setItem
\* throws; the exception is caught there and the result is not looked at
saveState(mem, log) ==
    saved' = IF storageFails THEN saved
             ELSE <<[memoryValue |-> mem, calculationHistory |-> log]>>

\* an emit that is skipped when the write before it failed
emitAfterSave(eventName) ==
    emitted' = IF storageFails THEN emitted
               ELSE [emitted EXCEPT ![eventName] = @ + 1]

\* eventEmitter.emit(eventName, data), counted
emit(eventName) == emitted' = [emitted EXCEPT ![eventName] = @ + 1]

\* an addToHistory that drops the entry
addToHistoryNothing(log, expression, result) == log

\* an addToHistory that never cuts the log
addToHistoryUnlimited(log, expression, result) ==
    <<[expression |-> expression, result |-> result]>> \o log

\* the log after addToHistory(expression, result): the new entry in front,
\* cut to the first 100
addToHistory(log, expression, result) ==
    LET longer == <<[expression |-> expression, result |-> result]>> \o log
    IN IF Len(longer) > MaxLogEntries THEN SubSeq(longer, 1, MaxLogEntries)
       ELSE longer

\* does CalculatorModel.formatNumber(x) throw 'Invalid number'
FormatThrows(x) == x.k # "fin"

\* CalculatorModel.formatNumber(x) of a finite number
formatNumber(x) ==
    LET numStr == NumToString(x)
    IN IF Len(numStr) > 12 THEN ToExponential5(x)
       ELSE IF Abs(x.n) >= 1000 * x.d /\ ~Contains(numStr, ".")
            THEN ToLocaleString(x)
       ELSE numStr

\* `Unknown operation: ${op}`
UnknownOperation(op) ==
    CASE op = "+" -> "Unknown operation: +"
      [] op = "-" -> "Unknown operation: -"
      [] op = "*" -> "Unknown operation: *"
      [] op = "/" -> "Unknown operation: /"
      [] op = "%" -> "Unknown operation: %"

\* the message of the error CalculatorModel.calculate(op, a, b) throws,
\* "" when it returns: the scientific strategy has no binary operation
CalculateError(strategy, op, a, b) ==
    IF strategy # "basic" THEN UnknownOperation(op)
    ELSE IF BasicThrows(op, a, b) THEN "Division by zero"
    ELSE ""

(***************************************************************************)
(* CalculatorView: the writes of the handlers to the page.                 *)
(***************************************************************************)
\* showError(message): the error class, the message in the result field and
\* an error toast
ShowError(v, message) ==
    [v EXCEPT !.errorState = TRUE, !.errorText = message, !.toast = message,
              !.current = <<message>>]

\* an updateDisplay that drops a call made while a redraw is pending
updateDisplayKeepingFirst(v, current, label) ==
    IF v.redraw # <<>> THEN v
    ELSE [v EXCEPT !.redraw = <<[current |-> current, history |-> label]>>]

\* updateDisplay(current, history), debounced: the call replaces the pending
\* redraw, if any, by one with its own arguments
updateDisplay(v, current, label) ==
    [v EXCEPT !.redraw = <<[current |-> current, history |-> label]>>]

\* clearError()
ClearError(v) == [v EXCEPT !.errorState = FALSE]

\* showToast(message)
ShowToast(v, message) == [v EXCEPT !.toast = message]

\* the controller's formatNumber(number): the formatted text, or "0" and an
\* error on the page when the model's formatNumber throws
CtlFormat(x) == IF FormatThrows(x) THEN <<"0">> ELSE formatNumber(x)

CtlFormatView(v, x) ==
    IF FormatThrows(x) THEN ShowError(v, "Invalid number") ELSE v

\* a catch block that also cleared the operands and the pending operator
CaughtAfterClearing(v, message) ==
    /\ view' = ShowError(v, message)
    /\ currentValue' = <<"0">>
    /\ previousValue' = <<>>
    /\ operator' = NULL
    /\ UNCHANGED <<isWaitingForOperand, history, memoryValue,
                   calculationHistory, currentStrategy, saved, emitted>>

\* catch (error) { CalculatorView.showError(error.message) } of a handler
\* whose try block threw before its first write to the model
Caught(v, message) ==
    /\ view' = ShowError(v, message)
    /\ UNCHANGED modelVars

(***************************************************************************)
(* CalculatorController: the input handlers.  Each action is one handler   *)
(* run to completion; it leaves the undo stack and the input bookkeeping   *)
(* to the event that calls it.                                             *)
(***************************************************************************)
\* an inputNumber without the limit on the length
inputNumberUnlimited(num) ==
    /\ currentValue' = IF isWaitingForOperand \/ currentValue = <<"0">>
                       THEN <<num>>
                       ELSE currentValue \o <<num>>
    /\ isWaitingForOperand' = FALSE
    /\ view' = ClearError(view)
    /\ UNCHANGED <<previousValue, operator, history, memoryValue,
                   calculationHistory, currentStrategy, saved, emitted>>

\* inputNumber(num)
inputNumber(num) ==
    LET newValue == IF currentValue = <<"0">> THEN <<num>>
                    ELSE currentValue \o <<num>>
    IN IF isWaitingForOperand THEN
           /\ currentValue' = <<num>>
           /\ isWaitingForOperand' = FALSE
           /\ view' = updateDisplay(ClearError(view), <<num>>, history)
           /\ UNCHANGED <<previousValue, operator, history, memoryValue,
                          calculationHistory, currentStrategy, saved, emitted>>
       ELSE IF Len(newValue) > MaxInputLength THEN
           /\ view' = ShowToast(ClearError(view), "Maximum digits reached")
           /\ UNCHANGED modelVars
       ELSE
           /\ currentValue' = newValue
           /\ view' = updateDisplay(ClearError(view), newValue, history)
           /\ UNCHANGED <<previousValue, operator, isWaitingForOperand, history,
                          memoryValue, calculationHistory, currentStrategy, saved, emitted>>

\* inputOperator(nextOperator)
inputOperator(nextOperator) ==
    LET current == ParseFloat(currentValue)
        previous == ParseFloat(previousValue)
        evaluates == previousValue # <<>> /\ operator # NULL
                        /\ ~isWaitingForOperand
        error == IF evaluates
                 THEN CalculateError(currentStrategy, operator, previous, current)
                 ELSE ""
        result == BasicValue(operator, previous, current)
        newPrevious == IF previousValue = <<>> THEN NumToString(current)
                       ELSE IF evaluates THEN NumToString(result)
                       ELSE previousValue
    IN IF IsNaN(current) THEN
           /\ view' = ShowError(view, "Invalid input")
           /\ UNCHANGED modelVars
       ELSE IF error # "" THEN
           Caught(view, error)
       ELSE
           /\ previousValue = <<>> => Printable(current)
           /\ evaluates => BasicInModel(operator, previous, current)
           /\ currentValue' = IF evaluates THEN CtlFormat(result)
                              ELSE currentValue
           /\ previousValue' = newPrevious
           /\ isWaitingForOperand' = TRUE
           /\ operator' = nextOperator
           /\ history' = newPrevious \o <<" ", nextOperator>>
           /\ view' = updateDisplay(
                          IF evaluates THEN CtlFormatView(view, result) ELSE view,
                          IF evaluates THEN CtlFormat(result) ELSE currentValue,
                          newPrevious \o <<" ", nextOperator>>)
           /\ UNCHANGED <<memoryValue, calculationHistory, currentStrategy,
                          saved, emitted>>

\* calculate(): the equals key
calculate ==
    LET current == ParseFloat(currentValue)
        previous == ParseFloat(previousValue)
        error == CalculateError(currentStrategy, operator, previous, current)
        result == BasicValue(operator, previous, current)
        formatted == CtlFormat(result)
        expression == previousValue \o <<" ", operator, " ">>
                          \o NumToString(current)
        log == addToHistory(calculationHistory, expression, formatted)
    IN IF previousValue = <<>> \/ operator = NULL \/ IsNaN(current) THEN
           UNCHANGED <<modelVars, view>>
       ELSE IF error # "" THEN
           Caught(view, error)
       ELSE
           /\ BasicInModel(operator, previous, current)
           /\ Printable(current)
           /\ calculationHistory' = log
           /\ saveState(memoryValue, log)
           /\ emit("historyUpdated")
           /\ currentValue' = formatted
           /\ previousValue' = <<>>
           /\ operator' = NULL
           /\ isWaitingForOperand' = TRUE
           /\ history' = expression \o <<" ", "=">>
           /\ view' = updateDisplay(CtlFormatView(view, result), formatted,
                                    expression \o <<" ", "=">>)
           /\ UNCHANGED <<memoryValue, currentStrategy>>

\* a reset that leaves the pending operator
resetKeepingOperator ==
    /\ currentValue' = <<"0">>
    /\ previousValue' = <<>>
    /\ isWaitingForOperand' = FALSE
    /\ history' = <<>>
    /\ view' = ShowToast(view, "Calculator reset")
    /\ UNCHANGED <<operator, memoryValue, calculationHistory, currentStrategy,
                   saved, emitted>>

\* a reset that leaves the history label
resetKeepingHistory ==
    /\ currentValue' = <<"0">>
    /\ previousValue' = <<>>
    /\ operator' = NULL
    /\ isWaitingForOperand' = FALSE
    /\ view' = ShowToast(view, "Calculator reset")
    /\ UNCHANGED <<history, memoryValue, calculationHistory, currentStrategy,
                   saved, emitted>>

\* CalculatorModel.reset(), with the controller's 'reset' listener
reset ==
    /\ currentValue' = <<"0">>
    /\ previousValue' = <<>>
    /\ operator' = NULL
    /\ isWaitingForOperand' = FALSE
    /\ history' = <<>>
    /\ view' = ShowToast(updateDisplay(view, <<"0">>, <<>>), "Calculator reset")
    /\ UNCHANGED <<memoryValue, calculationHistory, currentStrategy, saved, emitted>>

\* a deleteLast that removes the only character too
deleteLastToEmpty ==
    /\ currentValue' = DropLast(currentValue)
    /\ UNCHANGED <<previousValue, operator, isWaitingForOperand, history,
                   memoryValue, calculationHistory, currentStrategy, saved, emitted,
                   view>>

\* deleteLast()
deleteLast ==
    /\ currentValue' = IF Len(currentValue) > 1 /\ currentValue # <<"0">>
                       THEN DropLast(currentValue)
                       ELSE <<"0">>
    /\ view' = updateDisplay(view,
                             IF Len(currentValue) > 1 /\ currentValue # <<"0">>
                             THEN DropLast(currentValue)
                             ELSE <<"0">>,
                             history)
    /\ UNCHANGED <<previousValue, operator, isWaitingForOperand, history,
                   memoryValue, calculationHistory, currentStrategy, saved, emitted>>

\* inputDecimal()
inputDecimal ==
    /\ IF isWaitingForOperand THEN
           /\ currentValue' = <<"0", ".">>
           /\ isWaitingForOperand' = FALSE
           /\ view' = updateDisplay(view, <<"0", ".">>, history)
       ELSE IF ~Contains(currentValue, ".") THEN
           /\ currentValue' = currentValue \o <<".">>
           /\ view' = updateDisplay(view, currentValue \o <<".">>, history)
           /\ UNCHANGED isWaitingForOperand
       ELSE
           /\ view' = updateDisplay(view, currentValue, history)
           /\ UNCHANGED <<currentValue, isWaitingForOperand>>
    /\ UNCHANGED <<previousValue, operator, history, memoryValue,
                   calculationHistory, currentStrategy, saved, emitted>>

\* performPercentage()
performPercentage ==
    LET current == ParseFloat(currentValue)
        result == BasicValue("/", current, IntNum(100))
    IN IF IsNaN(current) THEN UNCHANGED <<modelVars, view>>
       ELSE
           /\ Exact(current)
           /\ Printable(result)
           /\ currentValue' = CtlFormat(result)
           /\ isWaitingForOperand' = TRUE
           /\ view' = ShowToast(updateDisplay(CtlFormatView(view, result),
                                              CtlFormat(result), history),
                                "Percentage calculated")
           /\ UNCHANGED <<previousValue, operator, history, memoryValue,
                          calculationHistory, currentStrategy, saved, emitted>>

\* performScientificFunction(func) for a function of the current operand
performScientificFunction(func) ==
    LET current == ParseFloat(currentValue)
        error == ScientificError(func, current)
        result == ScientificValue(func, current)
        formatted == CtlFormat(result)
        \* the expression is built from getCurrentValue() after
        \* setCurrentValue(formatted)
        expression == FuncText(func) \o <<"(">> \o formatted \o <<")">>
        log == addToHistory(calculationHistory, expression, formatted)
    IN IF IsNaN(current) THEN
           /\ view' = ShowError(ClearError(view), "Invalid input for function")
           /\ UNCHANGED modelVars
       ELSE IF error # "" THEN
           Caught(ClearError(view), error)
       ELSE
           /\ ScientificInModel(func, current)
           /\ currentValue' = formatted
           /\ isWaitingForOperand' = TRUE
           /\ calculationHistory' = log
           /\ saveState(memoryValue, log)
           /\ emit("historyUpdated")
           /\ view' = updateDisplay(CtlFormatView(ClearError(view), result),
                                    formatted, history)
           /\ UNCHANGED <<previousValue, operator, history, memoryValue,
                          currentStrategy>>

\* parseFloat(value) || 0
ParseOrZero(value) ==
    LET x == ParseFloat(value) IN IF IsNaN(x) THEN IntNum(0) ELSE x

\* a memoryStore that keeps a value that is not a number
memoryStoreUnchecked(value) ==
    /\ memoryValue' = ParseFloat(value)
    /\ saveState(ParseFloat(value), calculationHistory)
    /\ emit("memoryChanged")
    /\ UNCHANGED <<engineVars, calculationHistory, currentStrategy>>

\* CalculatorModel.memoryStore(value)
memoryStore(value) ==
    LET x == ParseOrZero(value)
    IN /\ Exact(x)
       /\ memoryValue' = x
       /\ saveState(x, calculationHistory)
       /\ emit("memoryChanged")
       /\ UNCHANGED <<engineVars, calculationHistory, currentStrategy>>

\* CalculatorModel.memoryRecall(): the text returned
memoryRecallText == NumToString(memoryValue)

\* CalculatorModel.memoryAdd(value)
modelMemoryAdd(value) ==
    LET x == ParseOrZero(value)
        sum == BasicValue("+", memoryValue, x)
    IN /\ BasicInModel("+", memoryValue, x)
       /\ Exact(sum)
       /\ memoryValue' = sum
       /\ saveState(sum, calculationHistory)
       /\ emit("memoryChanged")
       /\ UNCHANGED <<engineVars, calculationHistory, currentStrategy>>

\* CalculatorModel.memorySubtract(value)
modelMemorySubtract(value) ==
    LET x == ParseOrZero(value)
        difference == BasicValue("-", memoryValue, x)
    IN /\ BasicInModel("-", memoryValue, x)
       /\ Exact(difference)
       /\ memoryValue' = difference
       /\ saveState(difference, calculationHistory)
       /\ emit("memoryChanged")
       /\ UNCHANGED <<engineVars, calculationHistory, currentStrategy>>

\* CalculatorModel.memoryClear()
modelMemoryClear ==
    /\ memoryValue' = IntNum(0)
    /\ saveState(IntNum(0), calculationHistory)
    /\ emit("memoryChanged")
    /\ UNCHANGED <<engineVars, calculationHistory, currentStrategy>>

\* handleMemoryClick, data-memory="clear": memoryClear()
memoryClear ==
    /\ modelMemoryClear
    /\ view' = ShowToast(view, "Memory cleared")

\* handleMemoryClick, data-memory="recall": memoryRecall()
memoryRecall ==
    /\ Printable(memoryValue)
    /\ currentValue' = memoryRecallText
    /\ isWaitingForOperand' = TRUE
    /\ view' = ShowToast(updateDisplay(view, memoryRecallText, history),
                         "Memory recalled")
    /\ UNCHANGED <<previousValue, operator, history, memoryValue,
                   calculationHistory, currentStrategy, saved, emitted>>

\* handleMemoryClick, data-memory="add": memoryAdd(current)
memoryAdd ==
    /\ modelMemoryAdd(currentValue)
    /\ view' = ShowToast(view, "Added to memory")

\* handleMemoryClick, data-memory="subtract": memorySubtract(current)
memorySubtract ==
    /\ modelMemorySubtract(currentValue)
    /\ view' = ShowToast(view, "Subtracted from memory")

\* handleModeToggle: data-mode is "basic" or "scientific"
handleModeToggle(mode) ==
    /\ currentStrategy' = mode
    /\ view' = ShowToast(view, IF mode = "scientific"
                                THEN "scientific mode activated"
                                ELSE "basic mode activated")
    /\ UNCHANGED <<engineVars, memoryValue, calculationHistory, saved, emitted>>

\* loadFromHistory(item.result) for the entry of the calculation log clicked
loadFromHistory(value) ==
    /\ currentValue' = value
    /\ isWaitingForOperand' = TRUE
    /\ view' = ShowToast(updateDisplay(view, value, history),
                         "Loaded from history")
    /\ UNCHANGED <<previousValue, operator, history, memoryValue,
                   calculationHistory, currentStrategy, saved, emitted>>

\* handleClearHistory: clearHistory()
handleClearHistory ==
    /\ calculationHistory' = <<>>
    /\ saveState(memoryValue, <<>>)
    /\ emit("historyUpdated")
    /\ view' = ShowToast(view, "History cleared")
    /\ UNCHANGED <<engineVars, memoryValue, currentStrategy>>

(***************************************************************************)
(* CommandHistory.                                                         *)
(***************************************************************************)
\* CommandHistory.canUndo()
canUndo == currentIndex >= 0

\* CommandHistory.undo() where it returns true: the command at currentIndex
\* restores its snapshot, and the index moves back
commandUndo ==
    /\ currentIndex >= 0
    /\ setState(commands[currentIndex + 1].previousState)
    /\ currentIndex' = currentIndex - 1
    /\ UNCHANGED commands

\* the controller's undo(): the undo button and Ctrl+Z
undo ==
    IF currentIndex >= 0 THEN
        /\ commandUndo
        /\ view' = ShowToast(
                       updateDisplay(
                           view,
                           commands[currentIndex + 1].previousState.currentValue,
                           commands[currentIndex + 1].previousState.history),
                       "Undone")
        /\ UNCHANGED <<calculationHistory, currentStrategy, saved, emitted>>
    ELSE
        /\ view' = ShowToast(view, "Nothing to undo")
        /\ UNCHANGED <<modelVars, undoVars>>

(***************************************************************************)
(* The input events.  An event is delivered when the planned input names   *)
(* it next, or, with no plan, when fewer than MaxKeys events were          *)
(* delivered.                                                              *)
(***************************************************************************)
DigitKeys == {"0", "1", "2", "3", "4", "5", "6", "7", "8", "9"}

\* the digits and functions of a freely explored behaviour
FreeDigits == {"0", "4", "5"}

FreeFunctions == {"sqrt", "log", "factorial"}

FreeKeys ==
    FreeDigits \cup BasicOperators \cup FreeFunctions
        \cup {"=", "AC", "DEL", ".", "undo", "pct", "MC", "MR", "M+", "M-",
              "basic", "scientific", "load", "clear-history"}

Deliver(key) ==
    /\ IF plan = <<>> THEN nKeys < MaxKeys /\ key \in FreeKeys
       ELSE nKeys < Len(plan) /\ plan[nKeys + 1] = key
    /\ nKeys' = nKeys + 1
    /\ UNCHANGED <<plan, storageFails, returned, legacy, emitter, context>>

ClickNumber ==
    \E num \in DigitKeys :
        Deliver(num) /\ inputNumber(num) /\ UNCHANGED undoVars

ClickOperator ==
    \E op \in BasicOperators :
        Deliver(op) /\ inputOperator(op) /\ UNCHANGED undoVars

ClickEquals == Deliver("=") /\ calculate /\ UNCHANGED undoVars

ClickClear == Deliver("AC") /\ reset /\ UNCHANGED undoVars

ClickDelete == Deliver("DEL") /\ deleteLast /\ UNCHANGED undoVars

ClickDecimal == Deliver(".") /\ inputDecimal /\ UNCHANGED undoVars

ClickPercentage == Deliver("pct") /\ performPercentage /\ UNCHANGED undoVars

ClickUndo == Deliver("undo") /\ undo

ClickScientific ==
    \E func \in ScientificFunctions :
        Deliver(func) /\ performScientificFunction(func) /\ UNCHANGED undoVars

ClickMemoryClear == Deliver("MC") /\ memoryClear /\ UNCHANGED undoVars

ClickMemoryRecall == Deliver("MR") /\ memoryRecall /\ UNCHANGED undoVars

ClickMemoryAdd == Deliver("M+") /\ memoryAdd /\ UNCHANGED undoVars

ClickMemorySubtract == Deliver("M-") /\ memorySubtract /\ UNCHANGED undoVars

ClickMode ==
    \E mode \in Strategies :
        Deliver(mode) /\ handleModeToggle(mode) /\ UNCHANGED undoVars

ClickHistoryItem ==
    \E i \in 1..Len(calculationHistory) :
        /\ Deliver("load")
        /\ loadFromHistory(calculationHistory[i].result)
        /\ UNCHANGED undoVars

ClickClearHistory ==
    Deliver("clear-history") /\ handleClearHistory /\ UNCHANGED undoVars

(***************************************************************************)
(* Operations run through CommandHistory.execute.  The controller never    *)
(* calls it, and CalculatorModel defines no performOperation: here every   *)
(* planned input other than undo is wrapped in a CalculationCommand whose  *)
(* performOperation is the handler of that input.                          *)
(***************************************************************************)
\* the handler of an input event
Perform(key) ==
    CASE key \in DigitKeys -> inputNumber(key)
      [] key \in BasicOperators -> inputOperator(key)
      [] key \in ScientificFunctions -> performScientificFunction(key)
      [] key \in Strategies -> handleModeToggle(key)
      [] key = "=" -> calculate
      [] key = "AC" -> reset
      [] key = "DEL" -> deleteLast
      [] key = "." -> inputDecimal
      [] key = "pct" -> performPercentage
      [] key = "MC" -> memoryClear
      [] key = "MR" -> memoryRecall
      [] key = "M+" -> memoryAdd
      [] key = "M-" -> memorySubtract
      [] key = "clear-history" -> handleClearHistory

\* the inputs whose handlers are run as commands
CommandKeys ==
    DigitKeys \cup BasicOperators \cup ScientificFunctions \cup Strategies
        \cup {"=", "AC", "DEL", ".", "pct", "MC", "MR", "M+", "M-",
              "clear-history"}

\* a push that never drops a command
PushCommandKeepingAll(kept, command) == kept \o <<command>>

\* the stack after CommandHistory.execute pushed a command on the commands up
\* to the current index: the oldest command is dropped beyond maxHistory
PushCommand(kept, command) ==
    IF Len(kept) + 1 > maxHistory THEN Tail(kept) \o <<command>>
    ELSE kept \o <<command>>

\* an execute that pushes behind every command of the stack, undone or not
ExecuteCommandKeepingTail ==
    \E key \in CommandKeys :
        /\ Deliver(key)
        /\ Perform(key)
        /\ commands' = PushCommand(commands, [operation |-> key,
                                              previousState |-> getState])
        /\ currentIndex' = IF currentIndex + 2 > maxHistory THEN currentIndex
                           ELSE currentIndex + 1

\* CommandHistory.execute(new CalculationCommand(model, key)): the command
\* takes its snapshot, performs the operation and is pushed
ExecuteCommand ==
    \E key \in CommandKeys :
        /\ Deliver(key)
        /\ Perform(key)
        /\ commands' = PushCommand(SubSeq(commands, 1, currentIndex + 1),
                                   [operation |-> key,
                                    previousState |-> getState])
        /\ currentIndex' = IF currentIndex + 2 > maxHistory THEN currentIndex
                           ELSE currentIndex + 1

(***************************************************************************)
(* The planned inputs.                                                     *)
(***************************************************************************)
\* n times the keys of a sequence
Repeat(keys, n) == [i \in 1..(n * Len(keys)) |-> keys[((i - 1) % Len(keys)) + 1]]

\* the digits of the planned calculations
PlanDigits == {"0", "3", "5", "7"}

\* a op b =, a op =, a op1 b op2 =, a op1 b op2 c =
ArithmeticPlans ==
    {<<a, op, b, "=">> : a \in DigitKeys, op \in BasicOperators, b \in DigitKeys}
        \cup {<<a, op, "=">> : a \in PlanDigits, op \in BasicOperators}

\* a negative operand, entered as 0 - d =
NegativeOperand(d) == <<"0", "-", d, "=">>

\* divisions by zero and functions applied outside their domains
ErrorPlans ==
    {<<"7", "/", "0", key>> : key \in BasicOperators \cup {"="}}
        \cup {NegativeOperand("4") \o <<f>> : f \in ScientificFunctions}
        \cup {<<"0", f>> : f \in ScientificFunctions}
        \cup {<<"2", ".", "5", "factorial">>, <<"2", "0", "0", "factorial">>,
               <<"1", "7", "1", "factorial">>}

\* chained operators, a grouped result, a lone minus sign and more digits
\* than an operand holds
ChainPlans ==
    {<<a, op1, "2", op2, "3", "=">> :
        a \in {"0", "7"}, op1 \in BasicOperators, op2 \in BasicOperators}
        \cup {<<"7", op1, "2", op2, "=">> :
                  op1 \in BasicOperators, op2 \in BasicOperators}
        \cup {<<"9", "9", "9", "+", "1", "+", "=">>,
               <<"-", "4", "-", "DEL", "+">>,
               <<"7", "factorial">>,
               <<"scientific", "2", "+", "3", "+">>,
               <<"scientific", "2", "+", "3", "=">>,
               <<"2", "+", "scientific", "3", "=">>,
               <<"scientific", "basic", "2", "*", "3", "=">>,
               Repeat(<<"5">>, MaxInputLength + 1),
               <<"1", ".">> \o Repeat(<<"0">>, MaxInputLength - 1),
               Repeat(<<"5">>, MaxInputLength) \o <<".">>}

\* clearing, backspace, percentage and functions of entered and of computed
\* operands
EditPlans ==
    {<<"5", "+", "3", "AC">>,
     <<"7", "/", "0", "=", "AC">>,
     <<"4", "5", "DEL", "DEL">>,
     <<"5", "+", "4", "5", "DEL">>,
     <<"5", "0", "pct">>,
     <<"5", "+", "5", "0", "pct">>,
     <<"9", "9", "9", "+", "1", "=", "pct">>,
     <<"-", "4", "-", "DEL", "pct">>,
     <<"9", "sqrt">>,
     <<"5", "+", "4", "sqrt">>}

\* the number of calculations of the longest planned run
MaxAppends == 101

\* more calculations than the log holds, each + 1 = adding one to the
\* running sum, and a log cleared between calculations
LogPlans ==
    {Repeat(<<"+", "1", "=">>, MaxAppends),
     <<"4", "sqrt", "9", "sqrt", "clear-history", "5", "+", "=">>}

\* the planned inputs of the controller
Plans ==
    ArithmeticPlans \cup ErrorPlans \cup ChainPlans \cup EditPlans
        \cup LogPlans

\* the longest run of commands of a planned undo sequence
MaxRun == 51

\* the operations of the planned undo sequences
UndoRuns ==
    {Repeat(<<"5", "+">>, n) : n \in 0..3}
        \cup {Repeat(<<key>>, n) : key \in {"5", "M+"}, n \in 1..MaxRun}
        \cup {<<"5", "M+", op, ".", "5", "=">> : op \in BasicOperators}

\* N operations followed by N + 1 undos
UndoPlans == {run \o Repeat(<<"undo">>, Len(run) + 1) : run \in UndoRuns}

(***************************************************************************)
(* The specifications.                                                     *)
(***************************************************************************)
\* the state after construction, with nothing in storage
Constructed ==
    /\ currentValue = <<"0">>
    /\ previousValue = <<>>
    /\ operator = NULL
    /\ isWaitingForOperand = FALSE
    /\ history = <<>>
    /\ memoryValue = IntNum(0)
    /\ calculationHistory = <<>>
    /\ currentStrategy = "basic"
    /\ saved = <<>>
    /\ emitted = [memoryChanged |-> 0, historyUpdated |-> 0]
    /\ storageFails = FALSE
    /\ commands = <<>>
    /\ currentIndex = -1
    /\ view = NewView
    /\ legacy = NewCalculator
    /\ emitter = NewEventEmitter
    /\ context = NewContext
    /\ nKeys = 0

\* the program started, no function called from outside
Fresh == Constructed /\ returned = NoCall

Init == Fresh /\ plan \in Plans \cup {<<>>}

Next ==
    \/ ClickNumber
    \/ ClickOperator
    \/ ClickEquals
    \/ ClickClear
    \/ ClickDelete
    \/ ClickDecimal
    \/ ClickPercentage
    \/ ClickUndo
    \/ ClickScientific
    \/ ClickMemoryClear
    \/ ClickMemoryRecall
    \/ ClickMemoryAdd
    \/ ClickMemorySubtract
    \/ ClickMode
    \/ ClickHistoryItem
    \/ ClickClearHistory

Spec == Init /\ [][Next]_vars

\* the undo stack driven by planned commands and undos
InitUndo == Fresh /\ plan \in UndoPlans

NextUndo ==
    \/ ExecuteCommand
    \/ ClickUndo

SpecUndo == InitUndo /\ [][NextUndo]_vars

\* the length of the planned interleavings of commands and undos
MaxInterleaved == 6

\* the inputs of the planned interleavings
InterleavedKeys == {"4", "5", "undo"}

\* every interleaving of the commands 4 and 5 with undos up to
\* MaxInterleaved inputs, and interleavings on a full stack
HistoryPlans ==
    UNION {[1..n -> InterleavedKeys] : n \in 1..MaxInterleaved}
        \cup {Repeat(<<"5">>, MaxRun) \o tail :
                  tail \in {<<"undo", "undo", "4", "4", "4", "undo">>,
                            <<"4", "undo", "5", "5">>}}

\* the undo stack driven by interleaved commands and undos
InitHistory == Fresh /\ plan \in HistoryPlans

SpecHistory == InitHistory /\ [][NextUndo]_vars

(***************************************************************************)
(* The model's memory, its storage and a restart, driven through the       *)
(* model's interface as well as through the controller.                    *)
(***************************************************************************)
\* the arguments of the memory operations called directly, texts of one
\* character: two numbers and a text that is no number
ApiValues == {"5", "3", "-"}

\* a call of the model or an event of its environment: it is made when the
\* planned input names it next, or, with no plan, when fewer than MaxKeys
\* inputs were made
Call(key) ==
    /\ IF plan = <<>> THEN nKeys < MaxKeys
       ELSE nKeys < Len(plan) /\ plan[nKeys + 1] = key
    /\ nKeys' = nKeys + 1
    /\ UNCHANGED <<plan, returned, legacy, emitter, context>>

CallMemoryStore ==
    \E value \in ApiValues :
        /\ Call("store " \o value)
        /\ memoryStore(<<value>>)
        /\ UNCHANGED <<undoVars, view, storageFails>>

CallMemoryAdd ==
    \E value \in ApiValues :
        /\ Call("add " \o value)
        /\ modelMemoryAdd(<<value>>)
        /\ UNCHANGED <<undoVars, view, storageFails>>

CallMemorySubtract ==
    \E value \in ApiValues :
        /\ Call("subtract " \o value)
        /\ modelMemorySubtract(<<value>>)
        /\ UNCHANGED <<undoVars, view, storageFails>>

\* localStorage starts to refuse writes (the quota is used up, or storage is
\* switched off), or accepts them again
StorageFault ==
    /\ Call("fault")
    /\ storageFails' = ~storageFails
    /\ UNCHANGED <<modelVars, undoVars, view>>

\* JSON.parse(JSON.stringify(x)) || 0 of a number: what is not finite is
\* written as null
LoadedNumber(x) == IF x.k = "fin" THEN x ELSE IntNum(0)

\* the page is loaded again: the model, the command history and the view
\* are constructed anew and init() reads the stored data
Reload ==
    /\ Call("reload")
    /\ currentValue' = <<"0">>
    /\ previousValue' = <<>>
    /\ operator' = NULL
    /\ isWaitingForOperand' = FALSE
    /\ history' = <<>>
    /\ memoryValue' = IF saved = <<>> THEN IntNum(0)
                      ELSE LoadedNumber(saved[1].memoryValue)
    /\ calculationHistory' = IF saved = <<>> THEN <<>>
                             ELSE saved[1].calculationHistory
    /\ currentStrategy' = "basic"
    /\ emitted' = [memoryChanged |-> 0, historyUpdated |-> 0]
    /\ commands' = <<>>
    /\ currentIndex' = -1
    /\ view' = NewView
    /\ UNCHANGED <<saved, storageFails>>

\* an operation run as a command, where the inputs are planned
PlannedCommand == plan # <<>> /\ ExecuteCommand

\* the planned inputs of the model: memory operations are run by their
\* handlers or as commands, the other operations as commands
StorePlans ==
    {<<"store 5", "add 3", "MR">>,
     <<"store 5", "subtract 3", "add -", "store -", "MR">>,
     <<"5", "M+", "undo">>,
     <<"5", "M+", "M+", "undo", "undo", "undo">>,
     <<"5", "M+", "4", "M-", "MC", "undo", "undo">>,
     <<"5", "M+", "MR", "+", "9", "sqrt", "reload", "undo", "MR">>,
     <<"5", "M+", "fault", "M+", "AC", "9", "sqrt", "clear-history", "reload">>,
     <<"fault", "4", "M+", "sqrt", "fault", "M+", "reload", "MR">>,
     <<"9", "sqrt", "fault", "4", "sqrt", "clear-history", "reload">>}

InitStore == Fresh /\ plan \in StorePlans \cup {<<>>}

NextStore ==
    \/ CallMemoryStore
    \/ CallMemoryAdd
    \/ CallMemorySubtract
    \/ ClickMemoryClear
    \/ ClickMemoryRecall
    \/ ClickMemoryAdd
    \/ ClickUndo
    \/ PlannedCommand
    \/ StorageFault
    \/ Reload

SpecStore == InitStore /\ [][NextStore]_vars

(***************************************************************************)
(* The keyboard.                                                           *)
(***************************************************************************)
\* the e.key values of the documented shortcuts, Ctrl+Z being the key z
\* with the control key held
ShortcutKeys ==
    DigitKeys \cup BasicOperators
        \cup {"Enter", "=", "Escape", "Backspace", ".", "Ctrl+Z"}

\* the shortcut keys of a freely explored behaviour
FreeShortcutKeys == ShortcutKeys \ (DigitKeys \ FreeDigits)

\* handleKeyboard(e), registered by document.addEventListener('keydown',
\* controller.handleKeyboard): the listener runs with the document as its
\* this, so this.deleteLast(), this.inputDecimal() and this.undo() are calls
\* of undefined and end the listener with a TypeError before anything is
\* written
handleKeyboard(key) ==
    IF key \in DigitKeys THEN inputNumber(key)
    ELSE IF key \in BasicOperators THEN inputOperator(key)
    ELSE IF key \in {"Enter", "="} THEN calculate
    ELSE IF key = "Escape" THEN reset
    ELSE UNCHANGED <<modelVars, view>>

\* a key is pressed
KeyDown ==
    \E key \in ShortcutKeys :
        /\ plan = <<>> => key \in FreeShortcutKeys
        /\ Call("key " \o key)
        /\ handleKeyboard(key)
        /\ UNCHANGED <<undoVars, storageFails>>

\* shortcuts after entered operands
KeyPlans ==
    {<<"4", "5", "key Backspace">>,
     <<"key 4", "key 5", "key Backspace", "key .", "key 5">>,
     <<"key 7", "key /", "key 2", "key Enter", "key Escape">>,
     <<"4", "+", "5", "key =", "key Ctrl+Z">>}

\* the calculator driven by keys and by the buttons the keys stand for
InitKeys == Fresh /\ plan \in KeyPlans \cup {<<>>}

NextKeys ==
    \/ ClickNumber
    \/ ClickOperator
    \/ ClickEquals
    \/ ClickClear
    \/ ClickDelete
    \/ ClickDecimal
    \/ ClickUndo
    \/ KeyDown

SpecKeys == InitKeys /\ [][NextKeys]_vars

(***************************************************************************)
(* Direct calls of the functions the model exports: calculate,             *)
(* scientificCalculate and formatNumber.                                   *)
(***************************************************************************)
\* the number of steps of a behaviour with a direct call
MaxCalls == 2

\* the integer operands of calculate
MaxOperand == 3

Operands == {IntNum(i) : i \in (-MaxOperand)..MaxOperand}

\* the call name(args) a behaviour makes, not made yet; numStr is the
\* default string form of an argument of formatNumber
Prepared(name, op, args, numStr) ==
    [call |-> 0, called |-> name, op |-> op, args |-> args, input |-> numStr,
     value |-> <<>>, text |-> <<>>, error |-> ""]

\* the function is called from outside the controller
Invoke(name) ==
    /\ returned.called = name
    /\ plan = <<>>
    /\ nKeys < MaxCalls
    /\ nKeys' = nKeys + 1
    /\ UNCHANGED <<plan, storageFails, legacy, emitter, context>>

\* the call returns a number
Returns(x) ==
    returned' = [returned EXCEPT !.call = @ + 1, !.value = <<x>>,
                                 !.text = <<>>, !.error = ""]

\* the call returns a number that is finite and too large for the model
ReturnsLarge ==
    returned' = [returned EXCEPT !.call = @ + 1, !.value = <<>>,
                                 !.text = <<>>, !.error = ""]

\* the call returns a text
ReturnsText(text) ==
    returned' = [returned EXCEPT !.call = @ + 1, !.value = <<>>,
                                 !.text = text, !.error = ""]

\* the call throws an Error with the message
Throws(message) ==
    returned' = [returned EXCEPT !.call = @ + 1, !.value = <<>>,
                                 !.text = <<>>, !.error = message]

\* CalculatorModel.calculate(op, a, b): the operation of the current
\* strategy, applied to the arguments; nothing is assigned
modelCalculate(op, a, b) ==
    /\ IF CalculateError(currentStrategy, op, a, b) # ""
       THEN Throws(CalculateError(currentStrategy, op, a, b))
       ELSE Returns(BasicValue(op, a, b))
    /\ UNCHANGED <<modelVars, undoVars, view>>

CallCalculate ==
    /\ Invoke("calculate")
    /\ modelCalculate(returned.op, returned.args[1], returned.args[2])

\* the calls of calculate on integer operands whose result the model
\* carries out
CalculateCalls ==
    {Prepared("calculate", op, <<a, b>>, <<>>) :
        <<op, a, b>> \in {t \in BasicOperators \X Operands \X Operands :
                            BasicInModel(t[1], t[2], t[3])}}

\* the arguments of factorial: integers around the two ends of the domain,
\* fractions, and values that are no finite number
FactorialArguments ==
    {IntNum(i) : i \in (-2)..13} \cup {IntNum(i) : i \in 169..172}
        \cup {Fin(5, 2), Fin(-1, 2), Fin(341, 2), NaN, PosInf, NegInf}

\* CalculatorModel.scientificCalculate(f, x) for the factorial: the product
\* is computed where it is an integer of the model, and is a finite double
\* (170! < 1.8e308) elsewhere
scientificCalculate(f, x) ==
    /\ IF ScientificError(f, x) # "" THEN Throws(ScientificError(f, x))
       ELSE IF x.n <= 12 THEN Returns(ScientificValue(f, x))
       ELSE ReturnsLarge
    /\ UNCHANGED <<modelVars, undoVars, view>>

CallFactorial ==
    /\ Invoke("scientificCalculate")
    /\ scientificCalculate(returned.op, returned.args[1])

FactorialCalls ==
    {Prepared("scientificCalculate", "factorial", <<x>>, <<>>) :
        x \in FactorialArguments}

\* the arguments of formatNumber that are numbers of the model
FormatArguments ==
    {IntNum(0), IntNum(7), IntNum(-45), IntNum(999), IntNum(1000),
     IntNum(-1000), IntNum(1234567), IntNum(2147483647), IntNum(-2147483647),
     Fin(1, 2), Fin(2469, 2), Fin(-2469, 2), Fin(1, 1024), Fin(-1, 1024),
     Fin(256001, 256), Fin(3, 256), NaN, PosInf, NegInf}

\* CalculatorModel.formatNumber(number) called directly
modelFormatNumber(x) ==
    /\ IF FormatThrows(x) THEN Throws("Invalid number")
       ELSE ReturnsText(formatNumber(x))
    /\ UNCHANGED <<modelVars, undoVars, view>>

CallFormatNumber ==
    /\ Invoke("formatNumber")
    /\ modelFormatNumber(returned.args[1])

FormatCalls ==
    {Prepared("formatNumber", "", <<x>>, NumToString(x)) : x \in FormatArguments}

\* integers beyond the numbers of the model, written in decimal digits:
\* below 2^53, so that the double of each is the integer itself
LongIntegers ==
    {<<"9", "9", "9", "9", "9", "9", "9", "9", "9", "9", "9", "9">>,
     <<"1", "0", "0", "0", "0", "0", "0", "0", "0", "0", "0", "0">>,
     <<"1", "0", "0", "0", "0", "0", "0", "0", "0", "0", "0", "0", "0">>,
     <<"1", "2", "3", "4", "5", "6", "7", "8", "9", "0", "1", "2", "3">>,
     <<"9", "9", "9", "9", "9", "9", "5", "0", "0", "0", "0", "0", "0">>,
     <<"1", "2", "3", "4", "5", "6", "4", "9", "9", "9", "9", "9", "9", "9">>,
     <<"9", "0", "0", "7", "1", "9", "9", "2", "5", "4", "7", "4", "0", "9",
       "9", "1">>}

\* Number(number).toExponential(5) of an integer of seven digits or more:
\* the first six digits, rounded half up by the seventh
LongToExponential5(negative, ds) ==
    ExponentialRounded(negative, (DigitsValue(ds, 1, 7) + 5) \div 10,
                       Len(ds) - 1)

\* a formatNumber that groups an integer whatever its length
formatLongIntegerGroupingFirst(negative, ds) ==
    (IF negative THEN <<"-">> ELSE <<>>) \o Grouped(ds)

\* CalculatorModel.formatNumber(number) of the integer with the digits ds,
\* of four digits or more, negated if negative
formatLongInteger(negative, ds) ==
    LET numStr == (IF negative THEN <<"-">> ELSE <<>>) \o ds
    IN IF Len(numStr) > 12 THEN LongToExponential5(negative, ds)
       ELSE (IF negative THEN <<"-">> ELSE <<>>) \o Grouped(ds)

CallFormatLongInteger ==
    /\ Invoke("formatNumber of digits")
    /\ ReturnsText(IF returned.input[1] = "-"
                   THEN formatLongInteger(TRUE, Tail(returned.input))
                   ELSE formatLongInteger(FALSE, returned.input))
    /\ UNCHANGED <<modelVars, undoVars, view>>

FormatLongCalls ==
    {Prepared("formatNumber of digits", "", <<>>, sign \o ds) :
        sign \in {<<>>, <<"-">>}, ds \in LongIntegers}

\* a mode button or a digit between the calls
ClickBetweenCalls ==
    /\ nKeys < MaxCalls
    /\ ClickMode \/ ClickNumber

\* one call of a function of the model, made and repeated in either mode
\* and with an operand entered
InitApi ==
    /\ Constructed
    /\ returned \in
        CalculateCalls \cup FactorialCalls \cup FormatCalls \cup FormatLongCalls
    /\ plan = <<>>

NextApi ==
    \/ CallCalculate
    \/ CallFactorial
    \/ CallFormatNumber
    \/ CallFormatLongInteger
    \/ ClickBetweenCalls

SpecApi == InitApi /\ [][NextApi]_vars

(***************************************************************************)
(* The debounced display.                                                  *)
(***************************************************************************)
\* the timer of the debounced updateDisplay fires, 16 ms after the last
\* call: the result field and the history label get the arguments of that
\* call
RedrawFires ==
    /\ view.redraw # <<>>
    /\ view' = [view EXCEPT !.current = view.redraw[1].current,
                            !.history = view.redraw[1].history,
                            !.redraw = <<>>]
    /\ UNCHANGED <<modelVars, undoVars, storageFails, returned, legacy, plan,
                   nKeys, emitter, context>>

\* the number of inputs of each combination of inputs
MaxViewKeys == 3

ViewKeys == {"5", "+", "=", "AC", "DEL", ".", "MR"}

\* every combination of up to MaxViewKeys inputs, and longer runs with a
\* grouped result, the memory, a percentage, an undo and an error
ViewPlans ==
    UNION {[1..n -> ViewKeys] : n \in 1..MaxViewKeys}
        \cup {<<"5", "+", "3", "=">>,
               <<"9", "9", "9", "+", "1", "=", "DEL">>,
               <<"4", ".", "5", "M+", "AC", "MR", "pct", "undo">>,
               <<"7", "/", "0", "=", "4">>}

\* the inputs come faster or slower than the redraws
InitView == Fresh /\ plan \in ViewPlans

\* the handlers that ask for a redraw, and the timer
NextView ==
    \/ ClickNumber
    \/ ClickOperator
    \/ ClickEquals
    \/ ClickClear
    \/ ClickDelete
    \/ ClickDecimal
    \/ ClickPercentage
    \/ ClickMemoryRecall
    \/ ClickMemoryAdd
    \/ ClickUndo
    \/ RedrawFires

SpecView == InitView /\ [][NextView]_vars

(***************************************************************************)
(* The Calculator class of the first version.                              *)
(***************************************************************************)
Actions == {"add", "subtract", "multiply", "divide"}

\* the operator an action of the keypad stands for
ActionOperator(action) ==
    CASE action = "add" -> "+"
      [] action = "subtract" -> "-"
      [] action = "multiply" -> "*"
      [] action = "divide" -> "/"

\* an input of the first version: a click or a key, or a timer that fires
Press ==
    /\ plan = <<>>
    /\ nKeys < MaxKeys
    /\ nKeys' = nKeys + 1
    /\ UNCHANGED <<modelVars, undoVars, view, storageFails, returned, plan,
                   emitter, context>>

\* Calculator.inputNumber(num)
CalculatorInputNumber(num) ==
    legacy' =
        IF legacy.waitingForOperand \/ legacy.shouldResetDisplay
        THEN [legacy EXCEPT !.currentInput = <<num>>,
                            !.waitingForOperand = FALSE,
                            !.shouldResetDisplay = FALSE]
        ELSE [legacy EXCEPT !.currentInput =
                                IF @ = <<"0">> THEN <<num>> ELSE @ \o <<num>>]

\* Calculator.clear()
CalculatorClear ==
    legacy' = [legacy EXCEPT !.currentInput = <<"0">>,
                             !.previousInput = <<>>,
                             !.operation = NULL,
                             !.waitingForOperand = FALSE,
                             !.shouldResetDisplay = FALSE,
                             !.error = ""]

\* the message performCalculation shows, "" when it returns a number
CalculationError(first, second, action) ==
    IF action = "divide" /\ IsZero(second) THEN "Cannot divide by zero" ELSE ""

\* the computations of the first version the model carries out
CalculationInModel(first, second, action) ==
    BasicInModel(ActionOperator(action), first, second)

\* the number performCalculation returns: a result with a short decimal
\* form is what toFixed(10) leaves
performCalculation(first, second, action) ==
    BasicValue(ActionOperator(action), first, second)

\* showError(message): the message on the display and a timer that clears
showError(message) ==
    legacy' = [legacy EXCEPT !.error = message, !.timers = @ + 1]

\* previousInput || 0
OrZero(x) == IF IsNaN(x) \/ IsZero(x) THEN IntNum(0) ELSE x

\* Calculator.performOperation(nextOperation)
performOperation(nextOperation) ==
    LET inputValue == ParseFloat(legacy.currentInput)
        first == OrZero(legacy.previousInput[1])
    IN IF legacy.previousInput = <<>>
       THEN legacy' = [legacy EXCEPT !.previousInput = <<inputValue>>,
                                     !.waitingForOperand = TRUE,
                                     !.operation = nextOperation]
       ELSE IF legacy.operation # NULL
       THEN IF CalculationError(first, inputValue, legacy.operation) # ""
            THEN showError(CalculationError(first, inputValue, legacy.operation))
            ELSE /\ CalculationInModel(first, inputValue, legacy.operation)
                 /\ legacy' =
                      [legacy EXCEPT
                         !.currentInput = NumToString(
                             performCalculation(first, inputValue, legacy.operation)),
                         !.previousInput = <<performCalculation(
                             first, inputValue, legacy.operation)>>,
                         !.waitingForOperand = TRUE,
                         !.operation = nextOperation]
       ELSE legacy' = [legacy EXCEPT !.waitingForOperand = TRUE,
                                     !.operation = nextOperation]

\* Calculator.calculate()
CalculatorCalculate ==
    LET inputValue == ParseFloat(legacy.currentInput)
        first == legacy.previousInput[1]
    IN IF legacy.previousInput = <<>> \/ legacy.operation = NULL
       THEN UNCHANGED legacy
       ELSE IF CalculationError(first, inputValue, legacy.operation) # ""
       THEN showError(CalculationError(first, inputValue, legacy.operation))
       ELSE /\ CalculationInModel(first, inputValue, legacy.operation)
            /\ legacy' =
                 [legacy EXCEPT
                    !.currentInput = NumToString(
                        performCalculation(first, inputValue, legacy.operation)),
                    !.previousInput = <<>>,
                    !.operation = NULL,
                    !.waitingForOperand = TRUE,
                    !.shouldResetDisplay = TRUE]

PressNumber ==
    \E num \in FreeDigits : Press /\ CalculatorInputNumber(num)

PressOperation ==
    \E action \in Actions : Press /\ performOperation(action)

PressEquals == Press /\ CalculatorCalculate

PressClear == Press /\ CalculatorClear

\* a timer set by showError fires two seconds later: this.clear()
ErrorTimeout ==
    /\ legacy.timers > 0
    /\ Press
    /\ legacy' = [legacy EXCEPT !.currentInput = <<"0">>,
                                !.previousInput = <<>>,
                                !.operation = NULL,
                                !.waitingForOperand = FALSE,
                                !.shouldResetDisplay = FALSE,
                                !.error = "",
                                !.timers = @ - 1]

InitCalculator == Fresh /\ plan = <<>>

NextCalculator ==
    \/ PressNumber
    \/ PressOperation
    \/ PressEquals
    \/ PressClear
    \/ ErrorTimeout

SpecCalculator == InitCalculator /\ [][NextCalculator]_vars

(***************************************************************************)
(* Undo round trip (C1).                                                   *)
(***************************************************************************)
\* the snapshot of the model after construction
FreshState ==
    [currentValue |-> <<"0">>,
     previousValue |-> <<>>,
     operator |-> NULL,
     isWaitingForOperand |-> FALSE,
     history |-> <<>>,
     memoryValue |-> IntNum(0)]

\* the number N of commands of the planned undo sequence
RunLength == (Len(plan) - 1) \div 2

\* the N undos are done: the model is back at the snapshot taken before the
\* first command, and the undo after them reported that nothing was left
RoundTrip ==
    /\ nKeys >= 2 * RunLength => getState = FreshState
    /\ nKeys = 2 * RunLength + 1 =>
           view.toast = "Nothing to undo" /\ currentIndex = -1

C2_OperationsAreRecorded ==
    [][(engineVars' # engineVars /\ ~ClickUndo) => canUndo']_vars

(***************************************************************************)
(* Errors leave the state untouched (C3).                                  *)
(***************************************************************************)
\* the pending operation divides by a current operand that reads as zero
DividesByZero ==
    /\ previousValue # <<>>
    /\ operator = "/"
    /\ IsZero(ParseFloat(currentValue))

\* x is outside the domain of f: sqrt of a negative, log and ln of a value
\* <= 0, factorial of a negative, a non-integer or a value > 170
OutsideDomain(f, x) ==
    /\ IsFinite(x)
    /\ \/ f = "sqrt" /\ x.n < 0
       \/ f \in {"log", "ln"} /\ x.n <= 0
       \/ f = "factorial" /\ (x.n < 0 \/ x.n % x.d # 0 \/ x.n > 170 * x.d)

\* the step left the engine state and the log as they were and put an
\* error on the page
ErrorSurfacedStateUntouched ==
    /\ UNCHANGED <<engineVars, calculationHistory>>
    /\ view'.errorState
    /\ view'.errorText # ""

\* C3: equals or an evaluating operator input that divides by zero, and a
\* scientific function applied outside its domain, surface the error and
\* leave the engine state and the calculation log exactly as they were
C3_ErrorsLeaveStateUntouched ==
    [][/\ (DividesByZero /\ ClickEquals) => ErrorSurfacedStateUntouched
       /\ (DividesByZero /\ ~isWaitingForOperand /\ ClickOperator)
              => ErrorSurfacedStateUntouched
       /\ \A f \in ScientificFunctions :
              (/\ Deliver(f)
               /\ OutsideDomain(f, ParseFloat(currentValue))
               /\ performScientificFunction(f))
                  => ErrorSurfacedStateUntouched]_vars

\* 7 / 0 = was refused with the division still pending
C3_Witness ==
    /\ plan = <<"7", "/", "0", "=">>
    /\ nKeys = 4
    /\ view.errorText = "Division by zero"
    /\ operator = "/"
    /\ previousValue = <<"7">>
    /\ currentValue = <<"0">>


(***************************************************************************)
(* a op b = from the initial state (C4).                                   *)
(***************************************************************************)
\* the planned input is a, op, b, = for two digits and an operator
IsBinaryPlan ==
    /\ Len(plan) = 4
    /\ plan[1] \in DigitKeys
    /\ plan[2] \in BasicOperators
    /\ plan[3] \in DigitKeys
    /\ plan[4] = "="

\* the evaluation of the planned a op b succeeds: it neither divides by zero
\* nor takes a remainder by zero
PlanSucceeds == ~(plan[2] \in {"/", "%"} /\ plan[3] = "0")

\* the formatted value of the planned a op b
PlanResult ==
    formatNumber(BasicValue(plan[2], IntNum(DigitVal(plan[1])),
                            IntNum(DigitVal(plan[3]))))

\* C4: from the initial state a, op, b, = with an evaluation that succeeds
\* leaves the formatted value of a op b as the current operand, nothing
\* pending, awaitingNewOperand set, and the entry "a op b" with that value
\* at the front of the calculation log
C4_BinaryEvaluation ==
    (IsBinaryPlan /\ nKeys = 4 /\ PlanSucceeds) =>
        /\ currentValue = PlanResult
        /\ previousValue = <<>>
        /\ operator = NULL
        /\ isWaitingForOperand
        /\ calculationHistory # <<>>
        /\ calculationHistory[1] =
               [expression |-> <<plan[1], " ", plan[2], " ", plan[3]>>,
                result |-> PlanResult]

\* 5 + 3 = shows 8 and logged 5 + 3 with the result 8
C4_Witness ==
    /\ plan = <<"5", "+", "3", "=">>
    /\ nKeys = 4
    /\ currentValue = <<"8">>
    /\ calculationHistory =
           <<[expression |-> <<"5", " ", "+", " ", "3">>, result |-> <<"8">>]>>


(***************************************************************************)
(* Operator inputs with an operator pending (C5, C6) and equals without a  *)
(* new operand (C7).                                                       *)
(***************************************************************************)
\* C5: an operator input while an operator is pending and no digit was
\* entered since only replaces the pending operator and the history label:
\* the operands and the calculation log stay as they are
C5_OperatorReplaced ==
    [][\A op \in BasicOperators :
           (/\ operator # NULL
            /\ isWaitingForOperand
            /\ Deliver(op)
            /\ inputOperator(op))
               => /\ operator' = op
                  /\ history' = previousValue \o <<" ", op>>
                  /\ UNCHANGED <<previousValue, currentValue,
                                 calculationHistory>>]_vars

\* the pending operation on the operands a and b is one the arithmetic
\* library evaluates to a number
Evaluates(a, b) ==
    /\ operator \in BasicOperators
    /\ ~IsNaN(a) /\ ~IsNaN(b)
    /\ ~(operator \in {"/", "%"} /\ IsZero(b))
    /\ BasicInModel(operator, a, b)

\* C6: an operator input while an operator is pending and a new operand was
\* entered evaluates the pending operation, stores the result as the
\* pending operand, makes the new operator pending and sets
\* awaitingNewOperand
C6_PendingOperationEvaluated ==
    [][\A op \in BasicOperators :
           (/\ operator # NULL
            /\ previousValue # <<>>
            /\ ~isWaitingForOperand
            /\ Deliver(op)
            /\ Evaluates(ParseFloat(previousValue), ParseFloat(currentValue))
            /\ inputOperator(op))
               => /\ previousValue' =
                         NumToString(BasicValue(operator,
                                                ParseFloat(previousValue),
                                                ParseFloat(currentValue)))
                  /\ operator' = op
                  /\ isWaitingForOperand']_vars

\* the planned input has an operator just delivered and accepted, and the
\* equals key next
EqualsFollowsOperator ==
    /\ plan # <<>>
    /\ nKeys >= 1
    /\ nKeys < Len(plan)
    /\ plan[nKeys] \in BasicOperators
    /\ plan[nKeys + 1] = "="
    /\ operator # NULL
    /\ previousValue # <<>>
    /\ isWaitingForOperand

\* C7: equals right after an operator input evaluates the pending operation
\* with the pending operand as both arguments, and leaves nothing pending
\* and awaitingNewOperand set
C7_EqualsRepeatsPendingOperand ==
    [][(/\ EqualsFollowsOperator
        /\ Evaluates(ParseFloat(previousValue), ParseFloat(previousValue)))
           => /\ currentValue' =
                     CtlFormat(BasicValue(operator, ParseFloat(previousValue),
                                          ParseFloat(previousValue)))
              /\ previousValue' = <<>>
              /\ operator' = NULL
              /\ isWaitingForOperand']_vars

(***************************************************************************)
(* Invariants of the operands (C8, C9).                                    *)
(***************************************************************************)
\* C8: in every state the controller's inputs reach, a pending operator
\* comes with a pending operand
C8_PendingOperatorHasOperand == operator # NULL => previousValue # <<>>

\* an operator is pending on the operand 5
C8_Witness ==
    /\ operator = "+"
    /\ previousValue = <<"5">>
    /\ isWaitingForOperand
    /\ nKeys = 2

\* the digits of s from position i on, with at most one decimal point
RECURSIVE DigitsAndPoint(_, _, _)
DigitsAndPoint(s, i, points) ==
    IF i > Len(s) THEN TRUE
    ELSE IF IsDigit(s[i]) THEN DigitsAndPoint(s, i + 1, points)
    ELSE s[i] = "." /\ points = 0 /\ DigitsAndPoint(s, i + 1, 1)

\* an unsigned operand: it starts with a digit, and with 0 only when the 0
\* is the whole integer part
CanonicalUnsigned(s) ==
    /\ s # <<>>
    /\ IsDigit(s[1])
    /\ (s[1] = "0" /\ Len(s) > 1) => s[2] = "."
    /\ DigitsAndPoint(s, 1, 0)

\* the canonical text of an operand: an optional leading "-", digits with no
\* leading zeros except "0", at most one decimal point, nothing else
Canonical(s) ==
    IF s # <<>> /\ s[1] = "-" THEN CanonicalUnsigned(Tail(s))
    ELSE CanonicalUnsigned(s)

\* C9: in every reachable state the current operand is canonical text
C9_CurrentOperandCanonical == Canonical(currentValue)

(***************************************************************************)
(* The limit on the length of the operand (C10).                           *)
(***************************************************************************)
\* C10: a digit input that would make the current operand longer than 15
\* characters changes nothing in the engine state, raises no error and
\* shows a notice
C10_LongInputRejected ==
    [][\A num \in DigitKeys :
           (/\ ~isWaitingForOperand
            /\ currentValue # <<"0">>
            /\ Len(currentValue) + 1 > MaxInputLength
            /\ Deliver(num)
            /\ inputNumber(num))
               => /\ UNCHANGED <<engineVars, memoryValue, calculationHistory>>
                  /\ ~view'.errorState
                  /\ view'.toast = "Maximum digits reached"]_vars

\* the sixteenth digit was refused: the operand holds the fifteen digits
\* entered before it
C10_Witness ==
    /\ plan = Repeat(<<"5">>, MaxInputLength + 1)
    /\ nKeys = MaxInputLength + 1
    /\ currentValue = Repeat(<<"5">>, MaxInputLength)
    /\ view.toast = "Maximum digits reached"


(***************************************************************************)
(* Clear (C11).                                                            *)
(***************************************************************************)
\* C11: clear always succeeds and leaves the current operand "0", no pending
\* operand, no pending operator, the awaiting flag false and the history
\* label empty, whatever the state it is pressed in
C11_ClearRestoresDefaults ==
    [][(Deliver("AC") /\ reset)
           => /\ currentValue' = <<"0">>
              /\ previousValue' = <<>>
              /\ operator' = NULL
              /\ isWaitingForOperand' = FALSE
              /\ history' = <<>>
              /\ view'.toast = "Calculator reset"]_vars

\* clear was pressed with an operand and an operator pending, and the engine
\* is back at its defaults
C11_Witness ==
    /\ plan = <<"5", "+", "3", "AC">>
    /\ nKeys = 4
    /\ currentValue = <<"0">>
    /\ previousValue = <<>>
    /\ operator = NULL
    /\ ~isWaitingForOperand
    /\ history = <<>>
    /\ view.toast = "Calculator reset"

(***************************************************************************)
(* Backspace (C12).                                                        *)
(***************************************************************************)
\* C12: backspace removes the last character of the current operand, or
\* sets it to "0" when it has a single character; it never leaves the
\* operand empty and changes neither the pending operand, nor the pending
\* operator, nor the calculation log
C12_BackspaceRemovesLast ==
    [][(Deliver("DEL") /\ deleteLast)
           => /\ currentValue' = IF Len(currentValue) = 1 THEN <<"0">>
                                  ELSE DropLast(currentValue)
              /\ currentValue' # <<>>
              /\ UNCHANGED <<previousValue, operator, calculationHistory>>]_vars

\* backspace was pressed on the operand 45 entered after 5 +: the operand is
\* 4 and the pending addition is intact
C12_Witness ==
    /\ plan = <<"5", "+", "4", "5", "DEL">>
    /\ nKeys = 5
    /\ currentValue = <<"4">>
    /\ previousValue = <<"5">>
    /\ operator = "+"

(***************************************************************************)
(* Percentage (C13).                                                       *)
(***************************************************************************)
\* the text of an operand without its group separators
WithoutGroups(s) == SelectSeq(s, LAMBDA c : c # ",")

\* the number an operand's text stands for
OperandValue(s) == ParseFloat(WithoutGroups(s))

\* C13: percentage replaces the current operand by the formatted value of
\* the current operand divided by 100 and sets the awaiting flag; the
\* pending operand, the pending operator, the memory value and the
\* calculation log are unchanged
C13_PercentageDividesBy100 ==
    [][(/\ Deliver("pct")
        /\ performPercentage
        /\ ~IsNaN(OperandValue(currentValue)))
           => /\ currentValue' =
                     CtlFormat(BasicValue("/", OperandValue(currentValue),
                                          IntNum(100)))
              /\ isWaitingForOperand' = TRUE
              /\ UNCHANGED <<previousValue, operator, memoryValue,
                             calculationHistory>>]_vars

(***************************************************************************)
(* Scientific functions (C14).                                             *)
(***************************************************************************)
\* C14: a scientific function f applied to a current operand x inside its
\* domain writes the formatted f(x) to the current operand, sets the
\* awaiting flag and puts first in the log an entry with the expression
\* "f(x)", x being the operand the function was applied to, and the
\* formatted f(x) as result
C14_FunctionLogsItsOperand ==
    [][\A f \in ScientificFunctions :
           (/\ Deliver(f)
            /\ ~IsNaN(ParseFloat(currentValue))
            /\ ScientificError(f, ParseFloat(currentValue)) = ""
            /\ performScientificFunction(f))
               => LET formatted ==
                          CtlFormat(ScientificValue(f, ParseFloat(currentValue)))
                  IN /\ currentValue' = formatted
                     /\ isWaitingForOperand' = TRUE
                     /\ calculationHistory' # <<>>
                     /\ calculationHistory'[1] =
                            [expression |-> FuncText(f) \o <<"(">>
                                                \o currentValue \o <<")">>,
                             result |-> formatted]]_vars

(***************************************************************************)
(* The calculation log (C15).                                              *)
(***************************************************************************)
\* the log after the step is the log before it with one entry put in front,
\* the last entry of a full log being dropped
AppendedInFront ==
    /\ Len(calculationHistory') =
           IF Len(calculationHistory) = MaxLogEntries THEN MaxLogEntries
           ELSE Len(calculationHistory) + 1
    /\ \A i \in 2..Len(calculationHistory') :
           calculationHistory'[i] = calculationHistory[i - 1]

\* the planned run of + 1 = calculations is over
AppendsDone ==
    /\ plan = Repeat(<<"+", "1", "=">>, MaxAppends)
    /\ nKeys = Len(plan)

\* the text of the n-th running sum
SumText(n) == NumToString(IntNum(n))

\* C15: the log never holds more than 100 entries; every change of the log
\* either clears it or puts one entry in front of the entries it held, in
\* their order, dropping exactly the oldest one when it held 100; after
\* more than 100 appends it holds the 100 most recent ones
C15_LogNewestFirstAtMost100 ==
    /\ [](Len(calculationHistory) <= MaxLogEntries)
    /\ [][calculationHistory' # calculationHistory
              => (calculationHistory' = <<>> \/ AppendedInFront)]_vars
    /\ [](AppendsDone =>
              /\ Len(calculationHistory) = MaxLogEntries
              /\ \A i \in 1..MaxLogEntries :
                     calculationHistory[i].result = SumText(MaxAppends + 1 - i))

\* 101 calculations were made: the log holds the results 101 down to 2
C15_Witness ==
    /\ AppendsDone
    /\ Len(calculationHistory) = 100
    /\ calculationHistory[1].result = <<"1", "0", "1">>
    /\ calculationHistory[100].result = <<"2">>

(***************************************************************************)
(* The memory operations (C16).                                            *)
(***************************************************************************)
\* the number an argument of the memory operations stands for, 0 when it is
\* not numeric
ArgumentValue(value) ==
    CASE value = "5" -> IntNum(5)
      [] value = "3" -> IntNum(3)
      [] OTHER -> IntNum(0)

\* the memory value plus y times the number an argument stands for
MemoryPlus(y, value) ==
    Fin(memoryValue.n + y * ArgumentValue(value).n * memoryValue.d,
        memoryValue.d)

\* the step, when it is a memory operation, has the effect the claim states
MemoryOperationEffect ==
    /\ \A value \in ApiValues :
           /\ (Call("store " \o value) /\ memoryStore(<<value>>))
                  => memoryValue' = ArgumentValue(value)
           /\ (Call("add " \o value) /\ modelMemoryAdd(<<value>>))
                  => memoryValue' = MemoryPlus(1, value)
           /\ (Call("subtract " \o value) /\ modelMemorySubtract(<<value>>))
                  => memoryValue' = MemoryPlus(-1, value)
    /\ (Deliver("MC") /\ memoryClear) => memoryValue' = IntNum(0)
    /\ (Deliver("MR") /\ memoryRecall)
           => /\ currentValue' = NumToString(memoryValue)
              /\ memoryValue' = memoryValue

MemoryKeys == {"MC", "M+", "M-"}

\* the step is a memory operation: these are the operations that emit
\* 'memoryChanged'
MemoryOperationStep ==
    emitted'.memoryChanged = emitted.memoryChanged + 1

\* the step undoes a command whose operation is a memory operation
UndoOfMemoryOperation ==
    /\ canUndo
    /\ currentIndex' = currentIndex - 1
    /\ commands[currentIndex + 1].operation \in MemoryKeys

PersistedMemory(data) ==
    IF data = <<>> THEN IntNum(0) ELSE data[1].memoryValue

MemoryOperationCalled ==
    \/ \E value \in ApiValues :
           \/ Call("store " \o value) /\ memoryStore(<<value>>)
           \/ Call("add " \o value) /\ modelMemoryAdd(<<value>>)
           \/ Call("subtract " \o value) /\ modelMemorySubtract(<<value>>)
    \/ \E key \in MemoryKeys : Deliver(key) /\ Perform(key)

\* the step applies a function to an operand of its domain, which appends
\* to the log
LogAppendCalled ==
    \E f \in ScientificFunctions :
        /\ Deliver(f)
        /\ ~IsNaN(ParseFloat(currentValue))
        /\ ScientificError(f, ParseFloat(currentValue)) = ""
        /\ performScientificFunction(f)

\* the step clears the log
LogClearCalled == Deliver("clear-history") /\ handleClearHistory

\* the step of a memory operation or of a log operation ended as it does
\* when the write succeeds, apart from what storage holds
CompletedWithoutSaving ==
    /\ MemoryOperationEffect
    /\ MemoryOperationCalled
           => /\ MemoryOperationStep
              /\ ~view'.errorState
    /\ (Deliver("M+") /\ memoryAdd)
           => memoryValue' = BasicValue("+", memoryValue,
                                        OperandValue(currentValue))
    /\ LogAppendCalled
           => /\ AppendedInFront
              /\ calculationHistory'[1].result = currentValue'
              /\ emitted'.historyUpdated = emitted.historyUpdated + 1
              /\ ~view'.errorState
    /\ LogClearCalled
           => /\ calculationHistory' = <<>>
              /\ emitted'.historyUpdated = emitted.historyUpdated + 1
              /\ ~view'.errorState

\* C19: when the storage write fails during a memory operation or a log
\* append or clear, the operation completes without an error: the memory
\* value and the log are updated as if the write had succeeded and the
\* notification is emitted; storage keeps what it held
C19_FailedSaveDoesNotFailOperation ==
    [][((MemoryOperationCalled \/ LogAppendCalled \/ LogClearCalled)
            /\ storageFails)
           => (CompletedWithoutSaving /\ saved' = saved)]_vars

\* with storage refusing writes the operand 4 was added to the memory and
\* its square root was taken: memory and log hold them, both notifications were
\* emitted, and storage holds nothing
C19_Witness ==
    /\ plan = <<"fault", "4", "M+", "sqrt", "fault", "M+", "reload", "MR">>
    /\ nKeys = 4
    /\ storageFails
    /\ memoryValue = IntNum(4)
    /\ Len(calculationHistory) = 1
    /\ emitted = [memoryChanged |-> 1, historyUpdated |-> 1]
    /\ saved = <<>>
    /\ ~view.errorState

(***************************************************************************)
(* Restart (C20).                                                          *)
(***************************************************************************)
\* the log that storage holds, empty when it holds nothing
PersistedLog(data) ==
    IF data = <<>> THEN <<>> ELSE data[1].calculationHistory

\* the planned inputs are over
PlanDone(inputs) == plan = inputs /\ nKeys = Len(inputs)

\* C20: after a restart the memory value and the log are those of the last
\* successful save, and the current operand is "0", the pending operand,
\* the pending operator, the awaiting flag, the history label and the undo
\* stack are at their defaults, whatever they were before
C20_RestartRestoresSavedData ==
    /\ [][Reload
              => /\ memoryValue' = PersistedMemory(saved)
                 /\ calculationHistory' = PersistedLog(saved)
                 /\ currentValue' = <<"0">>
                 /\ previousValue' = <<>>
                 /\ operator' = NULL
                 /\ isWaitingForOperand' = FALSE
                 /\ history' = <<>>
                 /\ commands' = <<>>
                 /\ currentIndex' = -1]_vars
    /\ [](PlanDone(<<"5", "M+", "fault", "M+", "AC", "9", "sqrt",
                     "clear-history", "reload">>)
              => (memoryValue = IntNum(5) /\ calculationHistory = <<>>))
    /\ [](PlanDone(<<"9", "sqrt", "fault", "4", "sqrt", "clear-history",
                     "reload">>)
              => /\ memoryValue = IntNum(0)
                 /\ Len(calculationHistory) = 1
                 /\ calculationHistory[1].result = <<"3">>)

\* the page was reloaded with 5 in the memory, one calculation in the log,
\* 5 + pending, the result 3 shown and the inputs on the undo stack: the
\* memory and the log are back, the rest is at its defaults
C20_Witness ==
    /\ plan = <<"5", "M+", "MR", "+", "9", "sqrt", "reload", "undo", "MR">>
    /\ nKeys = 7
    /\ memoryValue = IntNum(5)
    /\ Len(calculationHistory) = 1
    /\ currentValue = <<"0">>
    /\ previousValue = <<>>
    /\ operator = NULL
    /\ commands = <<>>

(***************************************************************************)
(* The bounds of the undo stack (C21).                                     *)
(***************************************************************************)
\* the input the step delivers, where the inputs are planned
NextInput == plan[nKeys + 1]

\* the step executes a planned command
ExecuteStep ==
    /\ nKeys < Len(plan)
    /\ NextInput # "undo"
    /\ nKeys' = nKeys + 1

\* the command that the step executes
ExecutedCommand == [operation |-> NextInput, previousState |-> getState]

\* C21: the stack never holds more than 50 commands and the index stays
\* between -1 and the last position; an execute that would make the stack
\* hold 51 commands discards the oldest one, and the index designates the
\* command just executed
C21_StackBounded ==
    /\ [](/\ Len(commands) <= maxHistory
          /\ -1 <= currentIndex
          /\ currentIndex <= Len(commands) - 1)
    /\ [][(ExecuteStep /\ currentIndex + 2 > maxHistory)
              => /\ Len(commands') = maxHistory
                 /\ SubSeq(commands', 1, maxHistory - 1) =
                        SubSeq(commands, 2, maxHistory)
                 /\ currentIndex' = maxHistory - 1
                 /\ commands'[currentIndex' + 1] = ExecutedCommand]_vars

\* 51 commands were executed, two were undone and three more executed: the
\* stack holds 50 commands and the index designates the last one, the
\* command 4
C21_Witness ==
    /\ plan = Repeat(<<"5">>, MaxRun)
                  \o <<"undo", "undo", "4", "4", "4", "undo">>
    /\ nKeys = MaxRun + 5
    /\ Len(commands) = maxHistory
    /\ currentIndex = maxHistory - 1
    /\ commands[maxHistory].operation = "4"

(***************************************************************************)
(* No redo tail (C22).                                                     *)
(***************************************************************************)
\* the step undoes a command
UndoStep ==
    /\ nKeys < Len(plan)
    /\ NextInput = "undo"
    /\ nKeys' = nKeys + 1
    /\ canUndo

\* C22: an execute leaves the commands up to the current index followed by
\* the new command, which the index designates, so that no command beyond
\* the index survives it; an undo restores the snapshot of the command at
\* the index and moves the index down, so that no step restores or applies
\* a command beyond the index
C22_NoRedoTail ==
    /\ [][ExecuteStep
              => /\ commands' =
                        PushCommand(SubSeq(commands, 1, currentIndex + 1),
                                    ExecutedCommand)
                 /\ currentIndex' = Len(commands') - 1]_vars
    /\ [][UndoStep
              => /\ getState' = commands[currentIndex + 1].previousState
                 /\ currentIndex' = currentIndex - 1
                 /\ commands' = commands]_vars

\* 4 and 5 were executed, 5 was undone and 4 executed: the stack holds the
\* two commands 4, the second taken at the operand "4", and not the
\* command 5
C22_Witness ==
    /\ plan = <<"4", "5", "undo", "4">>
    /\ nKeys = 4
    /\ Len(commands) = 2
    /\ currentIndex = 1
    /\ commands[2].operation = "4"
    /\ commands[2].previousState.currentValue = <<"4">>
    /\ currentValue = <<"4", "4">>

(***************************************************************************)
(* Keyboard shortcuts and buttons (C24).                                   *)
(***************************************************************************)
\* the engine state after the delete button
AfterDeleteButton ==
    /\ currentValue' = IF Len(currentValue) = 1 THEN <<"0">>
                       ELSE DropLast(currentValue)
    /\ UNCHANGED <<previousValue, operator, isWaitingForOperand, history>>

\* the engine state after the decimal button
AfterDecimalButton ==
    /\ currentValue' = IF isWaitingForOperand THEN <<"0", ".">>
                       ELSE IF Contains(currentValue, ".") THEN currentValue
                       ELSE currentValue \o <<".">>
    /\ isWaitingForOperand' = FALSE
    /\ UNCHANGED <<previousValue, operator, history>>

\* the engine state after the undo button
AfterUndoButton ==
    IF canUndo
    THEN getState' = commands[currentIndex + 1].previousState
    ELSE UNCHANGED engineVars

\* the step is the button click that the shortcut key stands for, as far as
\* the engine state goes
AfterButtonOf(key) ==
    CASE key \in DigitKeys -> inputNumber(key)
      [] key \in BasicOperators \ {"%"} -> inputOperator(key)
      [] key \in {"Enter", "="} -> calculate
      [] key = "Escape" -> reset
      [] key = "Backspace" -> AfterDeleteButton
      [] key = "." -> AfterDecimalButton
      [] key = "Ctrl+Z" -> AfterUndoButton
      [] OTHER -> TRUE

\* C24: from every reachable state the keys 0-9, + - * /, Enter or =,
\* Escape, Backspace, "." and Ctrl+Z leave the engine state that the
\* number, operator, equals, clear, delete, decimal and undo buttons leave
C24_ShortcutsMatchButtons ==
    [][\A key \in ShortcutKeys :
           (Call("key " \o key) /\ handleKeyboard(key))
               => AfterButtonOf(key)]_vars

(***************************************************************************)
(* An operator in the Idle state (C25).                                    *)
(***************************************************************************)
\* the Idle state: the engine state after construction or after clear
Idle ==
    /\ currentValue = <<"0">>
    /\ previousValue = <<>>
    /\ operator = NULL
    /\ ~isWaitingForOperand
    /\ history = <<>>

\* C25: an operator input in the Idle state is ignored: it leaves the
\* engine state unchanged
C25_IdleOperatorIgnored ==
    [][\A op \in BasicOperators :
           (Idle /\ Deliver(op) /\ inputOperator(op))
               => UNCHANGED engineVars]_vars

(***************************************************************************)
(* calculate called directly (C27).                                        *)
(***************************************************************************)
\* a op b of integers for op other than /, b # 0 for %: the remainder is
\* that of the division truncated toward zero
IntegerResult(op, a, b) ==
    CASE op = "+" -> a + b
      [] op = "-" -> a - b
      [] op = "*" -> a * b
      [] op = "%" -> (IF a < 0 THEN -1 ELSE 1) * (Abs(a) % Abs(b))

\* x is the number a op b of the integers a and b
IsMathematicalResult(x, op, a, b) ==
    /\ x.k = "fin"
    /\ IF op = "/" THEN b # 0 /\ x.n * b = a * x.d
       ELSE IF op = "%" /\ b = 0 THEN FALSE
       ELSE x.d = 1 /\ x.n = IntegerResult(op, a, b)

\* this step is a call of the function
Called(name) ==
    /\ returned'.called = name
    /\ returned'.call = returned.call + 1

\* what the call calculate(op, a, b) of this step has to do
CalculateContract(op, a, b) ==
    /\ IF op = "/" /\ b = 0 THEN returned'.error = "Division by zero"
       ELSE /\ returned'.error = ""
            /\ Len(returned'.value) = 1
            /\ IsMathematicalResult(returned'.value[1], op, a, b)
    /\ returned.call > 0 =>
            returned'.value = returned.value /\ returned'.error = returned.error
    /\ UNCHANGED <<modelVars, undoVars>>

\* C27: for integer operands a, b of a bounded range and op in {+,-,*,/,%}
\* with op # / or b # 0, calculate(op, a, b) returns the mathematical result,
\* returns the same when it is evaluated again, and changes no state of the
\* engine; calculate('/', a, 0) throws 'Division by zero'.
C27_CalculateIsPureArithmetic ==
    [][Called("calculate") =>
        CalculateContract(returned.op, returned.args[1].n, returned.args[2].n)]_vars

(***************************************************************************)
(* The domain of the factorial (C28).                                      *)
(***************************************************************************)
\* 0!, 1!, ..., 12!
Factorials ==
    <<1, 1, 2, 6, 24, 120, 720, 5040, 40320, 362880, 3628800, 39916800,
      479001600>>

\* x is negative, no integer, or greater than 170
OutsideFactorialDomain(x) ==
    x.k # "fin" \/ x.d # 1 \/ x.n < 0 \/ x.n > 170

\* what the call of the factorial on x of this step has to do
FactorialContract(x) ==
    /\ returned'.error # "" <=> OutsideFactorialDomain(x)
    /\ OutsideFactorialDomain(x) => returned'.error = "Invalid factorial input"
    /\ (~OutsideFactorialDomain(x) /\ x.n <= 12) =>
            returned'.value = <<IntNum(Factorials[x.n + 1])>>

\* C28: factorial(n) fails with a domain error exactly when n is negative,
\* no integer or greater than 170; for an integer 0 <= n <= 170 it returns
\* the product 1 * 2 * ... * n (0! = 1! = 1); so factorial(170) succeeds
\* and factorial(171), factorial(-1) and factorial(2.5) fail.
C28_FactorialDomain ==
    [][(Called("scientificCalculate") /\ returned.op = "factorial") =>
        FactorialContract(returned.args[1])]_vars

\* 12! was computed, in scientific mode and again
C28_Witness ==
    /\ returned.called = "scientificCalculate"
    /\ returned.args = <<IntNum(12)>>
    /\ returned.call = 2
    /\ returned.value = <<IntNum(479001600)>>

(***************************************************************************)
(* formatNumber: length before grouping (C29).                             *)
(***************************************************************************)
\* the default string forms of the numbers that are not finite
NonFiniteForms ==
    {NumToString(NaN), NumToString(PosInf), NumToString(NegInf)}

\* d.ddddde+x or d.ddddde-x, with a sign in front or none
IsExponential(text) ==
    LET t == IF text # <<>> /\ text[1] = "-" THEN Tail(text) ELSE text
    IN /\ Len(t) >= 10
       /\ IsDigit(t[1])
       /\ t[2] = "."
       /\ \A i \in 3..7 : IsDigit(t[i])
       /\ t[8] = "e"
       /\ t[9] \in {"+", "-"}
       /\ \A i \in 10..Len(t) : IsDigit(t[i])

\* what the call of formatNumber of this step has to do, numStr being the
\* default string form of its argument
FormatContract(numStr) ==
    IF numStr \in NonFiniteForms THEN returned'.error = "Invalid number"
    ELSE /\ returned'.error = ""
         /\ Len(numStr) > 12 => IsExponential(returned'.text)
         /\ Contains(returned'.text, GroupSeparator) => Len(numStr) <= 12
         /\ Len(numStr) <= 12 => WithoutGroups(returned'.text) = numStr

\* C29: formatNumber checks the length before it groups: a finite number
\* whose default string form is longer than 12 characters is rendered in
\* exponential notation, also when it is >= 1000 and has no fraction;
\* thousands are grouped only in numbers whose default string form has at
\* most 12 characters; NaN and the infinities fail with 'Invalid number'.
C29_LengthBeforeGrouping ==
    [][(Called("formatNumber") \/ Called("formatNumber of digits")) =>
        FormatContract(returned.input)]_vars

\* the integer 1000000000000 of 13 digits was rendered as 1.00000e+12
C29_Witness ==
    /\ returned.call > 0
    /\ returned.input =
        <<"1", "0", "0", "0", "0", "0", "0", "0", "0", "0", "0", "0", "0">>
    /\ returned.text = <<"1", ".", "0", "0", "0", "0", "0", "e", "+", "1", "2">>

(***************************************************************************)
(* Binary arithmetic in either mode (C30).                                 *)
(***************************************************************************)
\* what equals does to the current operand and the log in basic mode, with
\* the operator pending and the operand b entered
BasicModeEquals ==
    LET current == ParseFloat(currentValue)
        previous == ParseFloat(previousValue)
        result == BasicValue(operator, previous, current)
        expression == previousValue \o <<" ", operator, " ">>
                          \o NumToString(current)
    IN IF BasicThrows(operator, previous, current)
       THEN UNCHANGED <<currentValue, calculationHistory>>
       ELSE /\ currentValue' = CtlFormat(result)
            /\ calculationHistory' =
                   addToHistory(calculationHistory, expression,
                                CtlFormat(result))

\* C30: the mode does not change binary arithmetic: whatever mode buttons
\* were clicked before or during the entry, the input a, op, b, = with op
\* in {+,-,*,/,%} leaves the current operand and the log entry it leaves in
\* basic mode.
C30_ModeIndependentArithmetic ==
    [][(/\ previousValue # <<>>
        /\ operator \in BasicOperators
        /\ ~isWaitingForOperand
        /\ ~IsNaN(ParseFloat(currentValue))
        /\ Deliver("=")
        /\ calculate)
            => BasicModeEquals]_vars

(***************************************************************************)
(* A repeated operator in the first version (C26).                         *)
(***************************************************************************)
\* C26: in the Calculator class of the first version an operator pressed
\* while an operation is pending and no digit was entered since
\* (waitingForOperand is true) only replaces the pending operation:
\* previousInput and currentInput are unchanged and nothing is calculated.
C26_RepeatedOperatorReplaces ==
    [][\A action \in Actions :
           (/\ legacy.operation # NULL
            /\ legacy.waitingForOperand
            /\ Press
            /\ performOperation(action))
               => legacy' = [legacy EXCEPT !.operation = action]]_vars

(***************************************************************************)
(* The display follows the model (C23).                                    *)
(***************************************************************************)
\* no handler has shown an error so far
NoErrorSurfaced == view.errorText = ""

\* the page shows the model's current operand and history label
DisplayIsCurrent ==
    /\ view.current = currentValue
    /\ view.history = history

\* this step is a redraw
Redrawn == view.redraw # <<>> /\ view'.redraw = <<>> /\ nKeys' = nKeys

\* C23: throttling the display loses no state: the inputs are applied to
\* the model in their order whatever redraw is pending, a redraw changes
\* nothing of the model, and after inputs none of which surfaced an error,
\* once the pending redraw has fired, the result field and the history
\* label show the model's current operand and history label.
C23_DisplayFollowsModel ==
    /\ []((view.redraw = <<>> /\ NoErrorSurfaced) => DisplayIsCurrent)
    /\ []((plan = <<"5", "+", "3", "=">> /\ nKeys = 4)
              => currentValue = <<"8">>)
    /\ [][Redrawn => UNCHANGED <<modelVars, undoVars>>]_vars

\* 5 + 3 = entered with the redraw of the 5 fired in between and that of
\* the result fired at the end: the page shows 8 and the label "5 + 3 ="
C23_Witness ==
    /\ plan = <<"5", "+", "3", "=">>
    /\ nKeys = 4
    /\ view.redraw = <<>>
    /\ view.current = <<"8">>
    /\ view.history = <<"5", " ", "+", " ", "3", " ", "=">>
    /\ currentValue = <<"8">>

(***************************************************************************)
(* Results are read back as written (C31).                                 *)
(***************************************************************************)
\* the next operation reads the number r from the current operand
ReadBack(r) == IsFinite(r) => ParseFloat(currentValue') = r

\* the result of the pending operation on the operands as the handlers read
\* them
PendingResult ==
    BasicValue(operator, ParseFloat(previousValue), ParseFloat(currentValue))

\* the handler of this step wrote the result r of an evaluation, of a
\* percentage, of a function, of a recall or of a loaded log entry, and the
\* text it wrote reads back as r
ResultsReadBack ==
    /\ (/\ Deliver("=") /\ calculate
        /\ previousValue # <<>> /\ previousValue' = <<>>)
            => ReadBack(PendingResult)
    /\ \A op \in BasicOperators :
           (/\ Deliver(op) /\ inputOperator(op)
            /\ previousValue # <<>> /\ operator # NULL /\ ~isWaitingForOperand
            /\ isWaitingForOperand')
                => ReadBack(PendingResult)
    /\ (Deliver("pct") /\ performPercentage /\ ~IsNaN(ParseFloat(currentValue)))
            => ReadBack(BasicValue("/", ParseFloat(currentValue), IntNum(100)))
    /\ \A func \in ScientificFunctions :
           (/\ Deliver(func) /\ performScientificFunction(func)
            /\ ~IsNaN(ParseFloat(currentValue))
            /\ ScientificError(func, ParseFloat(currentValue)) = "")
                => ReadBack(ScientificValue(func, ParseFloat(currentValue)))
    /\ (Deliver("MR") /\ memoryRecall) => ReadBack(memoryValue)
    /\ \A i \in 1..Len(calculationHistory) :
           (Deliver("load") /\ loadFromHistory(calculationHistory[i].result))
                => ReadBack(OperandValue(calculationHistory[i].result))

\* C31: every result the engine writes to the current operand is read back
\* as the same number by the next operation: for every value r written by
\* equals, a chained operator, percentage, a scientific function, memory
\* recall or load-from-history, parsing the current operand as the handlers
\* do yields r.
C31_ResultsReadBack == [][ResultsReadBack]_vars

(***************************************************************************)
(* The pending operand is a finite number (C32).                           *)
(***************************************************************************)
\* C32: in every reachable state the pending operand is empty or the text
\* of a finite number, never "NaN" or "Infinity", also after an operator
\* input whose evaluation of the pending operation gave NaN or an infinite
\* value (x % 0).
C32_PendingOperandFinite ==
    previousValue = <<>> \/ IsFinite(ParseFloat(previousValue))

(***************************************************************************)
(* No log entry for a result that is no finite number (C33).               *)
(***************************************************************************)
\* equals evaluates the pending operation without an exception and the
\* result is NaN or infinite
EqualsGivesNoNumber ==
    /\ previousValue # <<>>
    /\ operator \in BasicOperators
    /\ ~IsNaN(ParseFloat(currentValue))
    /\ CalculateError(currentStrategy, operator, ParseFloat(previousValue),
                      ParseFloat(currentValue)) = ""
    /\ ~IsFinite(PendingResult)
    /\ Deliver("=")
    /\ calculate

\* C33: an evaluation whose result is NaN or infinite (equals on x % 0)
\* appends no entry to the calculation log: the error is surfaced and the
\* log is unchanged.
C33_NoLogEntryWithoutNumber ==
    [][EqualsGivesNoNumber =>
           (view'.errorState /\ UNCHANGED calculationHistory)]_vars

(***************************************************************************)
(* Length of the operand being entered (C34).                              *)
(***************************************************************************)
EntryKeys == DigitKeys \cup {".", "DEL"}

\* the keys delivered so far are digits, decimal points and backspaces only
OnlyEntered ==
    /\ plan # <<>>
    /\ \A i \in 1..nKeys : plan[i] \in EntryKeys

\* C34: after any sequence of digit, decimal-point and backspace inputs from
\* the initial state, currentOperand is at most 15 characters long.
C34_EnteredOperandBounded ==
    OnlyEntered => Len(currentValue) <= MaxInputLength

(***************************************************************************)
(* An error message and the pending redraw (C35).                          *)
(***************************************************************************)
\* the message of showError is what the result field shows
ErrorDisplayed == view.errorState /\ view.current = <<view.errorText>>

\* C35: an error message written by showError is not overwritten by a redraw
\* that was scheduled before the error: whenever the 16 ms timer fires while
\* the message is displayed, the message stays in the result field.
C35_ErrorSurvivesRedraw ==
    [][(ErrorDisplayed /\ RedrawFires) => view'.current = view.current]_vars

(***************************************************************************)
(* The first version: input entered while an error timer is pending (C36). *)
(***************************************************************************)
\* performCalculation shows an error only for a division by a current
\* operand of value zero, and showError leaves the operands alone: a current
\* operand that is not zero while a timer is pending was entered, or
\* computed, after every error whose timer is pending
EnteredAfterError ==
    /\ legacy.timers > 0
    /\ ~IsZero(ParseFloat(legacy.currentInput))

\* C36: in the first version of the calculator, input entered after an error
\* is not lost: the clear() that showError schedules 2000 ms later does not
\* discard the operand entered between the error and the firing of the timer.
C36_InputAfterErrorKept ==
    [][(EnteredAfterError /\ ErrorTimeout) =>
           legacy'.currentInput = legacy.currentInput]_vars

(***************************************************************************)
(* CommandHistory.execute of a command whose execute() throws (C37).       *)
(***************************************************************************)
\* an execute that records the command before it runs it
executeThrowingAfterPush ==
    /\ commands' = PushCommand(SubSeq(commands, 1, currentIndex + 1),
                               [operation |-> "command",
                                previousState |-> getState])
    /\ currentIndex' = IF currentIndex + 2 > maxHistory THEN currentIndex
                       ELSE currentIndex + 1

\* CommandHistory.execute(command) where command.execute() throws (a Command
\* of the base class): the commands behind the current index are dropped,
\* then the exception leaves execute before the push and the increment
executeThrowing ==
    /\ commands' = SubSeq(commands, 1, currentIndex + 1)
    /\ UNCHANGED currentIndex

ExecuteThrowing ==
    /\ Deliver("command")
    /\ executeThrowing
    /\ UNCHANGED <<modelVars, view>>

\* the number of inputs of the planned runs with a throwing command
MaxThrowKeys == 5

ThrowKeys == {"5", "undo", "command"}

ThrowPlans == UNION {[1..n -> ThrowKeys] : n \in 1..MaxThrowKeys}

InitThrow == Fresh /\ plan \in ThrowPlans

NextThrow ==
    \/ ExecuteCommand
    \/ ClickUndo
    \/ ExecuteThrowing

SpecThrow == InitThrow /\ [][NextThrow]_vars

\* the states the following undo() calls restore, in their order
UndoStates(stack, index) ==
    [i \in 1..(index + 1) |-> stack[index + 2 - i].previousState]

\* C37: when the operation wrapped by CommandHistory.execute throws, nothing
\* is recorded: currentIndex and canUndo() are as before, and the following
\* undo() calls restore the same sequence of states as before the call.
C37_ThrowingCommandNotRecorded ==
    [][ExecuteThrowing =>
           /\ currentIndex' = currentIndex
           /\ canUndo' = canUndo
           /\ UndoStates(commands', currentIndex') =
                  UndoStates(commands, currentIndex)]_vars

\* a command threw while an undone command was on the stack, and the undo
\* after it restored the state before the first command
C37_Witness ==
    /\ plan = <<"5", "5", "undo", "command", "undo">>
    /\ nKeys = 5
    /\ commands # <<>>
    /\ currentIndex = -1
    /\ currentValue = <<"0">>

(***************************************************************************)
(* EventEmitter on its own: on, off and emit with callbacks that subscribe *)
(* and unsubscribe while they are invoked (C38).                           *)
(***************************************************************************)
\* f and g do nothing to the emitter; once unsubscribes itself from the
\* event it is invoked for; adder subscribes g to that event
Callbacks == {"f", "g", "once", "adder"}

\* on(eventName, callback)
on(events, eventName, callback) ==
    [events EXCEPT ![eventName] = Append(@, callback)]

\* off(eventName, callback): filter builds a new array without the callback
off(events, eventName, callback) ==
    [events EXCEPT ![eventName] = SelectSeq(@, LAMBDA cb : cb # callback)]

\* callback(data): what the invoked callback does to the emitter
Invoked(events, eventName, callback) ==
    CASE callback = "once" -> off(events, eventName, "once")
      [] callback = "adder" -> on(events, eventName, "g")
      [] OTHER -> events

\* one round of the iteration over the array object emit started with: the
\* array is still the one in events while no off replaced it, and then it
\* receives what on pushes
Round(run, k) ==
    LET callback == run.array[k]
        events == Invoked(run.events, run.eventName, callback)
        aliased == run.aliased /\ callback # "once"
    IN [run EXCEPT !.events = events,
                   !.aliased = aliased,
                   !.array = IF aliased THEN events[run.eventName] ELSE @,
                   !.delivered = Append(@, callback)]

\* an iteration that reads the length of the array before every round
RECURSIVE forEachToLiveLength(_, _, _)
forEachToLiveLength(run, k, len) ==
    IF k > Len(run.array) THEN run
    ELSE forEachToLiveLength(Round(run, k), k + 1, len)

\* Array.prototype.forEach: the rounds 1..len, len being the length of the
\* array when forEach was called
RECURSIVE forEach(_, _, _)
forEach(run, k, len) ==
    IF k > len THEN run
    ELSE forEach(Round(run, k), k + 1, len)

\* emit(eventName, data)
emitTo(e, eventName) ==
    LET run == forEach([events |-> e.events, eventName |-> eventName,
                        array |-> e.events[eventName], aliased |-> TRUE,
                        delivered |-> <<>>],
                       1, Len(e.events[eventName]))
    IN [events |-> run.events, emitted |-> eventName,
        delivered |-> run.delivered]

\* the number of calls made to the emitter
MaxEmitterCalls == 4

\* a call of the emitter from outside
EmitterCall ==
    /\ plan = <<>>
    /\ nKeys < MaxEmitterCalls
    /\ nKeys' = nKeys + 1
    /\ UNCHANGED <<modelVars, undoVars, view, storageFails, returned, legacy,
                   context, plan>>

Subscribe ==
    \E eventName \in EventNames, callback \in Callbacks :
        /\ EmitterCall
        /\ emitter' = [emitter EXCEPT
                          !.events = on(@, eventName, callback)]

Unsubscribe ==
    \E eventName \in EventNames, callback \in Callbacks :
        /\ EmitterCall
        /\ emitter' = [emitter EXCEPT
                          !.events = off(@, eventName, callback)]

Emit ==
    \E eventName \in EventNames :
        /\ EmitterCall
        /\ emitter' = emitTo(emitter, eventName)

InitEmitter == Fresh /\ plan = <<>>

NextEmitter ==
    \/ Subscribe
    \/ Unsubscribe
    \/ Emit

SpecEmitter == InitEmitter /\ [][NextEmitter]_vars

\* the callbacks of a list
Subscribed(list) == {list[i] : i \in 1..Len(list)}

\* an emit of the event invokes the callbacks subscribed to it when it
\* starts, once for each subscription and in the order of the subscriptions
DeliversSubscriptions ==
    \A eventName \in EventNames :
        (EmitterCall /\ emitter' = emitTo(emitter, eventName))
            => /\ emitter'.delivered = emitter.events[eventName]
               /\ \A callback \in Callbacks :
                      callback \notin Subscribed(emitter.events[eventName])
                          => callback \notin Subscribed(emitter'.delivered)

\* off leaves no subscription of the callback to the event, and the other
\* subscriptions as they were
OffUnsubscribes ==
    \A eventName \in EventNames, callback \in Callbacks :
        (EmitterCall /\ emitter' = [emitter EXCEPT
                                       !.events = off(@, eventName, callback)])
            => /\ callback \notin Subscribed(emitter'.events[eventName])
               /\ \A other \in EventNames \ {eventName} :
                      emitter'.events[other] = emitter.events[other]

\* C38: EventEmitter delivers each emit synchronously to exactly the
\* callbacks subscribed to that event name when the emit starts, once per
\* subscription and in subscription order; after off(event, cb) the callback
\* is not subscribed, so that no later emit of the event invokes it; the
\* callbacks subscribed to other event names only are never invoked.
C38_EmitDeliversSubscriptions ==
    [][DeliversSubscriptions /\ OffUnsubscribes]_vars

\* an emit invoked a callback that subscribed another one and a callback
\* that unsubscribed itself: both were invoked, the new one was not
C38_Witness ==
    /\ emitter.emitted = "valueChanged"
    /\ emitter.delivered = <<"adder", "once">>
    /\ emitter.events["valueChanged"] = <<"adder", "g">>
    /\ nKeys = 3

(***************************************************************************)
(* The State classes (C39).  No class of the program is their context; the *)
(* context here has what the classes call: setState, getCurrentValue and a *)
(* handleInput that hands the input to the current state.                  *)
(***************************************************************************)
InputTypes == {"number", "operator"}

Inputs ==
    {[type |-> "number", value |-> <<d>>] : d \in FreeDigits}
        \cup {[type |-> "operator", value |-> <<op>>] : op \in BasicOperators}

\* the delegations after which the model gives a call up
MaxDelegations == 3

\* context.setState(state)
contextSetState(ctx, state) == [ctx EXCEPT !.state = state]

\* return value
Return(ctx, value) == [ctx EXCEPT !.result = value]

RECURSIVE contextHandleInput(_, _)

\* return this.context.handleInput(input)
Delegate(ctx, input) ==
    IF ctx.delegations >= MaxDelegations THEN Return(ctx, <<"unfinished">>)
    ELSE contextHandleInput([ctx EXCEPT !.delegations = @ + 1], input)

\* an OperatorState that hands a number to an IdleState
OperatorStateThroughIdle(ctx, input) ==
    IF input.type = "number"
    THEN Delegate(contextSetState(ctx, "IdleState"), input)
    ELSE Return(ctx, ctx.currentValue)

\* IdleState.handleInput(input)
IdleState(ctx, input) ==
    IF input.type = "number"
    THEN Delegate(contextSetState(ctx, "InputtingState"), input)
    ELSE Return(ctx, ctx.currentValue)

\* InputtingState.handleInput(input)
InputtingState(ctx, input) ==
    IF input.type = "operator"
    THEN Delegate(contextSetState(ctx, "OperatorState"), input)
    ELSE Return(ctx, input.value)

\* OperatorState.handleInput(input)
OperatorState(ctx, input) ==
    IF input.type = "number"
    THEN Delegate(contextSetState(ctx, "InputtingState"), input)
    ELSE Return(ctx, ctx.currentValue)

\* context.handleInput(input): the current state handles the input
contextHandleInput(ctx, input) ==
    CASE ctx.state = "IdleState" -> IdleState(ctx, input)
      [] ctx.state = "InputtingState" -> InputtingState(ctx, input)
      [] ctx.state = "OperatorState" -> OperatorState(ctx, input)

\* a call of handleInput from outside: the delegations are counted anew
handleInput(ctx, input) ==
    contextHandleInput([ctx EXCEPT !.delegations = 0], input)

\* the number of inputs handed to the context
MaxInputs == 5

ContextCall ==
    /\ plan = <<>>
    /\ nKeys < MaxInputs
    /\ nKeys' = nKeys + 1
    /\ UNCHANGED <<modelVars, undoVars, view, storageFails, returned, legacy,
                   emitter, plan>>

HandleNumber ==
    \E input \in Inputs :
        /\ input.type = "number"
        /\ ContextCall
        /\ context' = handleInput(context, input)

HandleOperator ==
    \E input \in Inputs :
        /\ input.type = "operator"
        /\ ContextCall
        /\ context' = handleInput(context, input)

\* the context holds any current value
InitStates ==
    /\ plan = <<>>
    /\ \E value \in FreeDigits :
           context = [NewContext EXCEPT !.currentValue = <<value>>]
    /\ currentValue = <<"0">>
    /\ previousValue = <<>>
    /\ operator = NULL
    /\ isWaitingForOperand = FALSE
    /\ history = <<>>
    /\ memoryValue = IntNum(0)
    /\ calculationHistory = <<>>
    /\ currentStrategy = "basic"
    /\ saved = <<>>
    /\ emitted = [memoryChanged |-> 0, historyUpdated |-> 0]
    /\ storageFails = FALSE
    /\ commands = <<>>
    /\ currentIndex = -1
    /\ view = NewView
    /\ legacy = NewCalculator
    /\ emitter = NewEventEmitter
    /\ returned = NoCall
    /\ nKeys = 0

NextStates ==
    \/ HandleNumber
    \/ HandleOperator

SpecStates == InitStates /\ [][NextStates]_vars

\* the state the input leads to
FSM(state, type) ==
    CASE state = "IdleState" /\ type = "number" -> "InputtingState"
      [] state = "InputtingState" /\ type = "operator" -> "OperatorState"
      [] state = "OperatorState" /\ type = "number" -> "InputtingState"
      [] OTHER -> state

FollowsFSM ==
    \A input \in Inputs :
        (ContextCall /\ context' = handleInput(context, input))
            => /\ context'.delegations <= 1
               /\ context'.result # <<"unfinished">>
               /\ context'.state = FSM(context.state, input.type)

\* C39: handleInput on an IdleState, InputtingState or OperatorState with a
\* number or an operator returns after at most one delegation to another
\* state, with Idle + number -> Inputting, Inputting + operator ->
\* OperatorState, OperatorState + number -> Inputting, and every other pair
\* of state and input leaving the current state as it is.
C39_StatesFollowFSM == [][FollowsFSM]_vars

\* an operator handed to an InputtingState was delegated once, to the
\* OperatorState, which returned the current value
C39_Witness ==
    /\ context.state = "OperatorState"
    /\ context.delegations = 1
    /\ context.result = context.currentValue
    /\ nKeys = 2

====
